---- MODULE Spec2Model ----
(***************************************************************************)
(* Tier reconciliation and cross-venue aggregation of                      *)
(* currency_leverage_collection: the threshold tier selectors of           *)
(* tableMake/make_suggest_rules.py (prefix msr_) and of streamlit_app.py   *)
(* (prefix app_), the cross-venue "street" reduction, the suggest-rule     *)
(* synthesizer and the aggregate sheet writer.                             *)
(*                                                                         *)
(* Units.  Leverage is an integer multiplier, a notional cap is an integer *)
(* amount of USDT, a margin rate is an integer number of millionths        *)
(* (0.50% = 5000).  Values that the code computes as quotients (1/lev,     *)
(* x*1.10, ...) are kept as exact fractions <<n, d>> with d > 0.           *)
(***************************************************************************)
EXTENDS Integers, Sequences, FiniteSets, TLC

VARIABLES payload,   \* sym_map of one symbol: venue -> list of rows
          isMajor,   \* whether the symbol is in the ranked (major) list
          op,        \* the operation that ran last
          arg,       \* its arguments
          ret        \* its return value (or the exception it raised)

vars == <<payload, isMajor, op, arg, ret>>

(***************************************************************************)
(* Bounds of the model.                                                    *)
(***************************************************************************)
MaxRows == 3
MaxTotalRows == 2
MaxRoundTenths == 300
MaxUnionRows == 3
MaxSourceTiers == 2
MaxParseThousands == 30

(***************************************************************************)
(* Raw cell values of a row [ex_name, lev, pos, mmr] as they are stored in *)
(* the Leverage&Margin_*.json payload.                                     *)
(*   None      JSON null                                                   *)
(*   Num(v)    a JSON number                                               *)
(*   EmptyStr  ""                                                          *)
(*   LevStr(v) the text "<v>X"                                             *)
(*   PctStr(v) the text "<v/100>%" with two decimals, e.g. PctStr(50) is   *)
(*             "0.50%"                                                     *)
(*   JunkStr   text without any digit, e.g. "--"                           *)
(*   LevStr6(v) the text "<v/10^6>X" of a fractional leverage              *)
(***************************************************************************)
NoneV == [t |-> "None", v |-> 0]
Num(n) == [t |-> "Num", v |-> n]
EmptyStr == [t |-> "Empty", v |-> 0]
LevStr(n) == [t |-> "LevStr", v |-> n]
PctStr(n) == [t |-> "PctStr", v |-> n]
JunkStr == [t |-> "Junk", v |-> 0]
\* the decimal text of the number v without separators, e.g. NumStr(125) is "125"
NumStr(n) == [t |-> "NumStr", v |-> n]
\* the text of v with thousands separators, e.g. CommaStr(1000000) is "1,000,000"
CommaStr(n) == [t |-> "CommaStr", v |-> n]
\* the range texts "0~<v>" and "0~<v with thousands separators>"
RangeStr(n) == [t |-> "RangeStr", v |-> n]
RangeCommaStr(n) == [t |-> "RangeCommaStr", v |-> n]
\* the text "<v/10^6>X" with six decimals, e.g. LevStr6(19999999) is "19.999999X"
LevStr6(n) == [t |-> "LevStr6", v |-> n]

\* Optional[float]
Nothing == [some |-> FALSE, val |-> 0]
Some(x) == [some |-> TRUE, val |-> x]

\* Optional[Tuple[float, float]], the result of a selector
NoPick == [some |-> FALSE, lev |-> 0, mmr |-> 0]
Pick(l, m) == [some |-> TRUE, lev |-> l, mmr |-> m]

(***************************************************************************)
(* make_suggest_rules.py: cell parsers                                     *)
(***************************************************************************)
\* variant: a missing value counts as unlimited (float("inf"))
msr_num_none_unlimited(v) ==
  CASE v.t = "None" -> Some(1000000000)
    [] v.t = "Num" -> Some(v.v)
    [] v.t = "Empty" -> Nothing
    [] v.t = "LevStr" -> Nothing
    [] v.t = "PctStr" -> Nothing
    [] v.t = "Junk" -> Nothing

\* float(str(v).replace(",", "").strip()); any text float() rejects is None
msr_num(v) ==
  CASE v.t = "None" -> Nothing
    [] v.t = "Num" -> Some(v.v)
    [] v.t = "Empty" -> Nothing
    [] v.t = "LevStr" -> Nothing
    [] v.t = "PctStr" -> Nothing
    [] v.t = "Junk" -> Nothing

\* a text ending in "%" is float(text without %) / 100.0
msr_mmr_to_float(v) ==
  CASE v.t = "None" -> Nothing
    [] v.t = "Num" -> Some(v.v)
    [] v.t = "PctStr" -> Some(v.v * 100)
    [] OTHER -> msr_num(v)

\* upper-case, drop blanks, drop one trailing "X", then _num
msr_lev_to_float(v) ==
  CASE v.t = "None" -> Nothing
    [] v.t = "Num" -> Some(v.v)
    [] v.t = "LevStr" -> Some(v.v)
    [] OTHER -> msr_num(v)

(***************************************************************************)
(* streamlit_app.py: cell parsers.  _num searches the first number in the  *)
(* text, so "<v>X" parses as v also without stripping the X.               *)
(***************************************************************************)
app_num(v) ==
  CASE v.t = "None" -> Nothing
    [] v.t = "Num" -> Some(v.v)
    [] v.t = "Empty" -> Nothing
    [] v.t = "LevStr" -> Some(v.v)
    [] v.t = "Junk" -> Nothing

app_lev_to_float(v) ==
  CASE v.t = "None" -> Nothing
    [] v.t = "Num" -> Some(v.v)
    [] OTHER -> app_num(v)

app_mmr_to_float(v) ==
  CASE v.t = "None" -> Nothing
    [] v.t = "Num" -> Some(v.v)
    [] v.t = "PctStr" -> Some(v.v * 100)
    [] OTHER -> app_num(v)

(***************************************************************************)
(* Both selectors: the list `parsed` of (lev, pos, mmr) of the rows that   *)
(* have at least four cells and all three values present, and its stable   *)
(* sort by pos, largest first (list.sort(key=pos, reverse=True)).          *)
(***************************************************************************)
RECURSIVE msr_parsed(_)
msr_parsed(rows) ==
  IF rows = <<>> THEN <<>>
  ELSE LET r == Head(rows)
       IN  (IF Len(r) < 4 THEN <<>>
            ELSE LET lev == msr_lev_to_float(r[2])
                     pos == msr_num(r[3])
                     mmr == msr_mmr_to_float(r[4])
                 IN  IF ~lev.some \/ ~pos.some \/ ~mmr.some THEN <<>>
                     ELSE << <<lev.val, pos.val, mmr.val>> >>)
           \o msr_parsed(Tail(rows))

RECURSIVE app_parsed(_)
app_parsed(rows) ==
  IF rows = <<>> THEN <<>>
  ELSE LET r == Head(rows)
       IN  (IF Len(r) < 4 THEN <<>>
            ELSE LET lev == app_lev_to_float(r[2])
                     pos == app_num(r[3])
                     mmr == app_mmr_to_float(r[4])
                 IN  IF ~lev.some \/ ~pos.some \/ ~mmr.some THEN <<>>
                     ELSE << <<lev.val, pos.val, mmr.val>> >>)
           \o app_parsed(Tail(rows))

\* variant: ascending order (reverse=True forgotten)
InsertByPosAsc(s, t) ==
  LET k == Cardinality({i \in 1..Len(s) : s[i][2] <= t[2]})
  IN  SubSeq(s, 1, k) \o <<t>> \o SubSeq(s, k + 1, Len(s))

\* insert t behind every element whose pos is >= its own
InsertByPosDesc(s, t) ==
  LET k == Cardinality({i \in 1..Len(s) : s[i][2] >= t[2]})
  IN  SubSeq(s, 1, k) \o <<t>> \o SubSeq(s, k + 1, Len(s))

RECURSIVE SortByPosDesc(_)
SortByPosDesc(s) ==
  IF s = <<>> THEN <<>>
  ELSE InsertByPosDesc(SortByPosDesc(SubSeq(s, 1, Len(s) - 1)), s[Len(s)])

(***************************************************************************)
(* make_suggest_rules._select_tier_for_threshold                           *)
(***************************************************************************)
\* variant: stop at the first row with pos >= S (naive "first tier >= S")
msr_scan_first(parsed, i, chosen, S) ==
  IF i > Len(parsed) THEN chosen
  ELSE IF parsed[i][2] >= S THEN Pick(parsed[i][1], parsed[i][3]) ELSE chosen

\* for lev, pos, mmr in parsed: if pos >= S: chosen = ... else: break
RECURSIVE msr_scan(_, _, _, _)
msr_scan(parsed, i, chosen, S) ==
  IF i > Len(parsed) THEN chosen
  ELSE IF parsed[i][2] >= S
       THEN msr_scan(parsed, i + 1, Pick(parsed[i][1], parsed[i][3]), S)
       ELSE chosen

\* if not parsed: return None; sort; scan
msr_select_parsed(parsed, S) ==
  IF parsed = <<>> THEN NoPick
  ELSE msr_scan(SortByPosDesc(parsed), 1, NoPick, S)

msr_select_tier_for_threshold(rows, S) == msr_select_parsed(msr_parsed(rows), S)

(***************************************************************************)
(* streamlit_app._select_tier_for_threshold                                *)
(***************************************************************************)
\* variant: the pair test written as pos > S and pos_next <= S
app_scan_strict(parsed, i, S) ==
  IF \E j \in i..(Len(parsed) - 1) : parsed[j][2] > S /\ parsed[j + 1][2] <= S
  THEN LET j == CHOOSE j \in i..(Len(parsed) - 1) :
                  /\ parsed[j][2] > S /\ parsed[j + 1][2] <= S
                  /\ \A h \in i..(j - 1) : ~(parsed[h][2] > S /\ parsed[h + 1][2] <= S)
       IN  Pick(parsed[j][1], parsed[j][3])
  ELSE NoPick

\* for i in range(len(parsed) - 1): if pos >= S and pos_next < S: return
RECURSIVE app_scan(_, _, _)
app_scan(parsed, i, S) ==
  IF i > Len(parsed) - 1 THEN NoPick
  ELSE IF parsed[i][2] >= S /\ parsed[i + 1][2] < S
       THEN Pick(parsed[i][1], parsed[i][3])
       ELSE app_scan(parsed, i + 1, S)

\* if S >= parsed[0][1]: return parsed[0][0], parsed[0][2]; else the pair loop
app_select_sorted(sorted, S) ==
  IF S >= sorted[1][2] THEN Pick(sorted[1][1], sorted[1][3])
  ELSE app_scan(sorted, 1, S)

\* if not parsed: return None; sort
app_select_parsed(parsed, S) ==
  IF parsed = <<>> THEN NoPick
  ELSE app_select_sorted(SortByPosDesc(parsed), S)

app_select_tier_for_threshold(rows, S) == app_select_parsed(app_parsed(rows), S)

(***************************************************************************)
(* Venues and policy constants                                             *)
(***************************************************************************)
\* variant: the reference venue competes as well
EXS_SHOW_with_surf == <<"BINANCE", "WEEX", "MECX", "BYBIT", "SURF">>

EXS_SHOW == <<"BINANCE", "WEEX", "MECX", "BYBIT">>
Venues == {"BINANCE", "WEEX", "MECX", "BYBIT", "SURF"}

MAJOR_TIERS == <<50000, 200000, 500000, 1000000>>
MINOR_TIERS == <<20000, 100000, 200000>>
ALPHA_TOP == <<2, 5>>       \* 0.40
ALPHA_MID == <<1, 2>>       \* 0.50
LEV_MAX == 1000
LEV_STEP == 5
MMR_FLOOR == 200            \* 0.0002, in millionths
DEFAULT_BASE_LEV == 10      \* street_lev or 10.0
ONE == 1000000              \* the rate 1.0, in millionths

(***************************************************************************)
(* Exact fractions <<n, d>>, d > 0, n >= 0                                 *)
(***************************************************************************)
FracLE(a, b) == a[1] * b[2] <= b[1] * a[2]
FracEq(a, b) == a[1] * b[2] = b[1] * a[2]
\* Python's max(a, b) and min(a, b): the first argument wins a tie
FracMax(a, b) == IF FracLE(b, a) THEN a ELSE b
FracMin(a, b) == IF FracLE(a, b) THEN a ELSE b
FracMul(a, b) == <<a[1] * b[1], a[2] * b[2]>>

\* round(): to the nearest integer, a tie goes to the even one
RoundHalfEven(x) ==
  LET q == x[1] \div x[2]
      r == x[1] % x[2]
  IN  IF 2 * r < x[2] THEN q
      ELSE IF 2 * r > x[2] THEN q + 1
      ELSE IF q % 2 = 0 THEN q ELSE q + 1

(***************************************************************************)
(* streamlit_app._round_leverage                                           *)
(*   x = min(LEV_MAX, max(1.0, x))                                         *)
(*   return float(int(round(x / LEV_STEP)) * LEV_STEP)                     *)
(***************************************************************************)
\* float(int(round(x / LEV_STEP)) * LEV_STEP)
round_to_step(x) == RoundHalfEven(<<x[1], x[2] * LEV_STEP>>) * LEV_STEP

app_round_leverage(x) == round_to_step(FracMin(<<LEV_MAX, 1>>, FracMax(<<1, 1>>, x)))

(***************************************************************************)
(* make_suggest_rules._street_for_symbol:                                  *)
(* (max_leverage, max_lev_source, min_mmr, min_mmr_source)                 *)
(***************************************************************************)
NoStreet == [lev |-> Nothing, lev_src |-> "", mmr |-> Nothing, mmr_src |-> ""]

\* if lev is not None and (max_lev_val is None or lev > max_lev_val): ...
street_take_lev(acc, ex, pick) ==
  IF ~acc.lev.some \/ pick.lev > acc.lev.val
  THEN [acc EXCEPT !.lev = Some(pick.lev), !.lev_src = ex]
  ELSE acc

\* if mmr is not None and (min_mmr_val is None or mmr < min_mmr_val): ...
street_take_mmr(acc, ex, pick) ==
  IF ~acc.mmr.some \/ pick.mmr < acc.mmr.val
  THEN [acc EXCEPT !.mmr = Some(pick.mmr), !.mmr_src = ex]
  ELSE acc

\* variant: an absent pick is not skipped and counts as (0, 0)
msr_street_step_no_skip(acc, ex, pick) ==
  street_take_mmr(street_take_lev(acc, ex, pick), ex, pick)

\* one iteration of `for ex in EXS_SHOW`
msr_street_step(acc, ex, pick) ==
  IF ~pick.some THEN acc
  ELSE street_take_mmr(street_take_lev(acc, ex, pick), ex, pick)

RECURSIVE msr_street_loop(_, _, _, _)
msr_street_loop(sym_map, S, i, acc) ==
  IF i > Len(EXS_SHOW) THEN acc
  ELSE msr_street_loop(sym_map, S, i + 1,
         msr_street_step(acc, EXS_SHOW[i],
                         msr_select_tier_for_threshold(sym_map[EXS_SHOW[i]], S)))

msr_street_for_symbol(sym_map, S) == msr_street_loop(sym_map, S, 1, NoStreet)

(***************************************************************************)
(* streamlit_app._street_for_symbol: (max(levs) or None, min(mmrs) or None)*)
(***************************************************************************)
\* if pick is None: continue; else append
PickList(pick) == IF pick.some THEN <<pick>> ELSE <<>>

RECURSIVE app_street_picks(_, _, _)
app_street_picks(sym_map, S, i) ==
  IF i > Len(EXS_SHOW) THEN <<>>
  ELSE PickList(app_select_tier_for_threshold(sym_map[EXS_SHOW[i]], S))
       \o app_street_picks(sym_map, S, i + 1)

SeqMax(s) == CHOOSE x \in {s[i] : i \in 1..Len(s)} : \A j \in 1..Len(s) : s[j] <= x
SeqMin(s) == CHOOSE x \in {s[i] : i \in 1..Len(s)} : \A j \in 1..Len(s) : x <= s[j]

\* (max(levs) if levs else None, min(mmrs) if mmrs else None)
app_street_of(picks) ==
  [lev |-> IF picks # <<>> THEN Some(SeqMax([i \in 1..Len(picks) |-> picks[i].lev]))
           ELSE Nothing,
   mmr |-> IF picks # <<>> THEN Some(SeqMin([i \in 1..Len(picks) |-> picks[i].mmr]))
           ELSE Nothing]

app_street_for_symbol(sym_map, S) == app_street_of(app_street_picks(sym_map, S, 1))

(***************************************************************************)
(* streamlit_app.build_suggest_rule_table.  A record keeps the locals of   *)
(* its iteration (sug_lev, im, sug_mmr, street_lev, street_mmr) beside the *)
(* position; 1.0 / sug_lev raises ZeroDivisionError when sug_lev is 0.     *)
(***************************************************************************)
TiersOf(major) == IF major THEN MAJOR_TIERS ELSE MINOR_TIERS

\* street_lev or 10.0: None and 0.0 are both falsy
BaseLev(street_lev) ==
  IF street_lev.some /\ street_lev.val # 0 THEN street_lev.val ELSE DEFAULT_BASE_LEV

\* _round_leverage(base_lev * 1.10) at the last index, (base_lev * 0.90) before.
\* For the integer leverages below 175 the exact product rounds as the binary
\* floating-point product does (175 * 1.10 is the first that differs).
SugLev(top, street_lev) ==
  IF top THEN app_round_leverage(<<BaseLev(street_lev) * 11, 10>>)
  ELSE app_round_leverage(<<BaseLev(street_lev) * 9, 10>>)

\* max(MMR_FLOOR, ALPHA * im), im = 1.0 / sug_lev
MmrRule(top, sug_lev) ==
  FracMax(<<MMR_FLOOR, 1>>, FracMul(IF top THEN ALPHA_TOP ELSE ALPHA_MID, <<ONE, sug_lev>>))

\* variant: the 0.90 discount of the last index applied at every index
SugMmr_always_discounted(top, street_mmr, mmr_rule) ==
  FracMin(mmr_rule, <<(IF street_mmr.some THEN street_mmr.val ELSE ONE) * 9, 10>>)

SugMmr(top, street_mmr, mmr_rule) ==
  IF top
  THEN FracMin(mmr_rule, <<(IF street_mmr.some THEN street_mmr.val ELSE ONE) * 9, 10>>)
  ELSE IF street_mmr.some THEN FracMin(mmr_rule, <<street_mmr.val, 1>>) ELSE mmr_rule

SuggestWith(S, top, st, sug_lev) ==
  IF sug_lev = 0 THEN [raised |-> TRUE]
  ELSE [raised |-> FALSE, position |-> S, sug_lev |-> sug_lev, im |-> <<ONE, sug_lev>>,
        sug_mmr |-> SugMmr(top, st.mmr, MmrRule(top, sug_lev)),
        street_lev |-> st.lev, street_mmr |-> st.mmr]

SuggestFrom(S, top, st) == SuggestWith(S, top, st, SugLev(top, st.lev))

\* variant: the special case one index early (1-based len(tiers) - 1)
SuggestRec_top_one_early(sym_map, tiers, idx) ==
  SuggestFrom(tiers[idx], idx = Len(tiers) - 1, app_street_for_symbol(sym_map, tiers[idx]))

\* the body of `for idx, S in enumerate(tiers)`
SuggestRec(sym_map, tiers, idx) ==
  SuggestFrom(tiers[idx], idx = Len(tiers), app_street_for_symbol(sym_map, tiers[idx]))

RECURSIVE suggest_loop(_, _, _, _)
\* recs.append(rec), unless the iteration raised
suggest_append(sym_map, tiers, idx, recs, rec) ==
  IF rec.raised THEN [raised |-> TRUE, recs |-> <<>>]
  ELSE suggest_loop(sym_map, tiers, idx + 1, Append(recs, rec))

suggest_loop(sym_map, tiers, idx, recs) ==
  IF idx > Len(tiers) THEN [raised |-> FALSE, recs |-> recs]
  ELSE suggest_append(sym_map, tiers, idx, recs, SuggestRec(sym_map, tiers, idx))

build_suggest_rule_table(major, sym_map) ==
  suggest_loop(sym_map, TiersOf(major), 1, <<>>)

(***************************************************************************)
(* make_suggest_rules.generate_excel.write_sheet: the records appended to  *)
(* tiers_json[sym]; 100.0 / street_lev raises ZeroDivisionError when the   *)
(* street leverage is 0.                                                   *)
(***************************************************************************)
\* "<int(x)>X"
msr_lev_fmt(x) == LevStr(x)

\* f"{v*100:.2f}%", v in millionths
msr_mmr_fmt(v) == PctStr(RoundHalfEven(<<v, 100>>))

SheetFrom(S, st) ==
  IF ~st.lev.some /\ ~st.mmr.some
  THEN [raised |-> FALSE, position |-> S, leverage_value |-> Nothing,
        leverage_display |-> EmptyStr, max_lev_source |-> "",
        mmr_value |-> Nothing, mmr_display |-> EmptyStr,
        min_mmr_source |-> "", im_value |-> Nothing]
  ELSE IF st.lev.some /\ st.lev.val = 0 THEN [raised |-> TRUE]
  ELSE [raised |-> FALSE, position |-> S, leverage_value |-> st.lev,
        leverage_display |-> IF st.lev.some THEN msr_lev_fmt(st.lev.val) ELSE EmptyStr,
        max_lev_source |-> st.lev_src,
        mmr_value |-> st.mmr,
        mmr_display |-> IF st.mmr.some THEN msr_mmr_fmt(st.mmr.val) ELSE EmptyStr,
        min_mmr_source |-> st.mmr_src,
        im_value |-> IF st.lev.some THEN Some(<<100, st.lev.val>>) ELSE Nothing]

\* the body of `for S in tiers`
SheetRec(sym_map, S) == SheetFrom(S, msr_street_for_symbol(sym_map, S))

RECURSIVE sheet_loop(_, _, _, _)
\* tiers_json[sym].append(rec), unless the iteration raised
sheet_append(sym_map, tiers, idx, recs, rec) ==
  IF rec.raised THEN [raised |-> TRUE, recs |-> <<>>]
  ELSE sheet_loop(sym_map, tiers, idx + 1, Append(recs, rec))

sheet_loop(sym_map, tiers, idx, recs) ==
  IF idx > Len(tiers) THEN [raised |-> FALSE, recs |-> recs]
  ELSE sheet_append(sym_map, tiers, idx, recs, SheetRec(sym_map, tiers[idx]))

write_sheet(major, sym_map) == sheet_loop(sym_map, TiersOf(major), 1, <<>>)

(***************************************************************************)
(* streamlit_app.build_aggregate_union_table.  The leverage key of by_lev  *)
(* is kept in millionths, so that 19.999999 and 20.0 are both values; a    *)
(* record keeps lev, max_pos_val, max_pos_ex, min_mmr_val and min_mmr_ex.  *)
(***************************************************************************)
\* variant: the reference venue is collected as well
union_exs_with_surf == <<"BINANCE", "WEEX", "MECX", "BYBIT", "SURF">>

\* exs = ["BINANCE", "WEEX", "MECX", "BYBIT"]
union_exs == <<"BINANCE", "WEEX", "MECX", "BYBIT">>

\* _lev_to_float(lev_raw), in millionths
union_lev_scaled(l) == IF l.some THEN Some(l.val * ONE) ELSE Nothing

union_lev(v) == IF v.t = "LevStr6" THEN Some(v.v) ELSE union_lev_scaled(app_lev_to_float(v))

\* variant: a tier without a cap is skipped, as the selectors skip it
union_entry_of_complete(ex, lev, pos, mmr) ==
  IF ~lev.some \/ ~pos.some THEN <<>>
  ELSE <<[ex |-> ex, lev |-> lev.val, pos |-> pos, mmr |-> mmr]>>

\* if lev is None: continue; by_lev.setdefault(lev, []).append((ex, pos, mmr))
union_entry_of(ex, lev, pos, mmr) ==
  IF ~lev.some THEN <<>>
  ELSE <<[ex |-> ex, lev |-> lev.val, pos |-> pos, mmr |-> mmr]>>

\* if len(r) < 4: continue
union_entry(ex, r) ==
  IF Len(r) < 4 THEN <<>>
  ELSE union_entry_of(ex, union_lev(r[2]), app_num(r[3]), app_mmr_to_float(r[4]))

RECURSIVE union_rows(_, _)
union_rows(ex, rows) ==
  IF rows = <<>> THEN <<>>
  ELSE union_entry(ex, Head(rows)) \o union_rows(ex, Tail(rows))

\* for ex in exs: for r in rows: ...; the entries in insertion order
RECURSIVE union_collect(_, _)
union_collect(sym_map, i) ==
  IF i > Len(union_exs) THEN <<>>
  ELSE union_rows(union_exs[i], sym_map[union_exs[i]]) \o union_collect(sym_map, i + 1)

\* sorted(by_lev.keys())
RECURSIVE union_sorted_keys(_)
union_sorted_keys(K) ==
  IF K = {} THEN <<>>
  ELSE LET m == CHOOSE x \in K : \A y \in K : x <= y
       IN  <<m>> \o union_sorted_keys(K \ {m})

\* if pos is None: continue; if max_pos_val is None or pos > max_pos_val: ...
union_take_pos(acc, e) ==
  IF ~e.pos.some THEN acc
  ELSE IF ~acc.val.some \/ e.pos.val > acc.val.val THEN [val |-> e.pos, ex |-> e.ex]
  ELSE acc

\* if mmr is None: continue; if min_mmr_val is None or mmr < min_mmr_val: ...
union_take_mmr(acc, e) ==
  IF ~e.mmr.some THEN acc
  ELSE IF ~acc.val.some \/ e.mmr.val < acc.val.val THEN [val |-> e.mmr, ex |-> e.ex]
  ELSE acc

RECURSIVE union_max_pos(_, _, _, _)
union_max_pos(entries, lev, i, acc) ==
  IF i > Len(entries) THEN acc
  ELSE union_max_pos(entries, lev, i + 1,
         IF entries[i].lev = lev THEN union_take_pos(acc, entries[i]) ELSE acc)

RECURSIVE union_min_mmr(_, _, _, _)
union_min_mmr(entries, lev, i, acc) ==
  IF i > Len(entries) THEN acc
  ELSE union_min_mmr(entries, lev, i + 1,
         IF entries[i].lev = lev THEN union_take_mmr(acc, entries[i]) ELSE acc)

union_record_of(lev, max_pos, min_mmr) ==
  [lev |-> lev, max_pos_val |-> max_pos.val, max_pos_ex |-> max_pos.ex,
   min_mmr_val |-> min_mmr.val, min_mmr_ex |-> min_mmr.ex]

\* the body of `for lev in sorted(by_lev.keys())`
union_record(entries, lev) ==
  union_record_of(lev, union_max_pos(entries, lev, 1, [val |-> Nothing, ex |-> ""]),
                  union_min_mmr(entries, lev, 1, [val |-> Nothing, ex |-> ""]))

union_records(entries, keys) == [i \in 1..Len(keys) |-> union_record(entries, keys[i])]

union_table(entries) ==
  union_records(entries, union_sorted_keys({entries[i].lev : i \in 1..Len(entries)}))

build_aggregate_union_table(sym_map) == union_table(union_collect(sym_map, 1))

(***************************************************************************)
(* tableMake.py: the normalizer.  A source tier is a record of raw fields  *)
(* [lev, cap, mmr] (for WEEX cap is the "range" text); a Binance risk      *)
(* bracket carries two alternative keys per field, lev/lev2, cap/cap2 and  *)
(* mmr/mmr2.  A numeric mmr is a fraction in millionths.                   *)
(***************************************************************************)
\* Python truthiness of a raw value: None, "" and the number 0 are falsy
PyFalsy(v) == v.t \in {"None", "Empty"} \/ (v.t = "Num" /\ v.v = 0)
\* a or b
PyOr(a, b) == IF PyFalsy(a) THEN b ELSE a
\* a or b on Optional[float]: None and 0.0 are falsy
OptOr(a, b) == IF a.some /\ a.val # 0 THEN a ELSE b
\* the cell that holds an Optional[float]
OptCell(o) == IF o.some THEN Num(o.val) ELSE NoneV

\* the digits the pattern [-+]?[0-9]*\.?[0-9]+ matches first in a text with
\* thousands separators: the group before the first comma
RECURSIVE LeadingGroup(_)
LeadingGroup(n) == IF n < 1000 THEN n ELSE LeadingGroup(n \div 1000)

\* the first number of the text; of "<p>%" the number p (in hundredths), of a
\* range text its lower bound 0
parse_number(v) ==
  CASE v.t = "None" -> Nothing
    [] v.t = "Num" -> Some(v.v)
    [] v.t = "Empty" -> Nothing
    [] v.t = "Junk" -> Nothing
    [] v.t = "NumStr" -> Some(v.v)
    [] v.t = "LevStr" -> Some(v.v)
    [] v.t = "PctStr" -> Some(v.v)
    [] v.t = "CommaStr" -> Some(LeadingGroup(v.v))
    [] v.t = "RangeStr" -> Some(0)
    [] v.t = "RangeCommaStr" -> Some(0)

\* f"{float(v.rstrip('%')):.2f}%" for a percent text, else f"{num * 100:.2f}%"
percent_str_of(v, num) ==
  IF ~num.some THEN EmptyStr
  ELSE IF v.t = "PctStr" THEN PctStr(v.v)
  ELSE PctStr(RoundHalfEven(<<num.val, 100>>))

to_percent_str(v) == percent_str_of(v, parse_number(v))

\* "<number text>X"; "" for None and for a text without a number
to_leverage_str(v) ==
  CASE v.t = "None" -> EmptyStr
    [] v.t = "Num" -> LevStr(v.v)
    [] v.t = "NumStr" -> LevStr(v.v)
    [] v.t = "LevStr" -> LevStr(v.v)
    [] v.t = "Empty" -> EmptyStr
    [] v.t = "Junk" -> EmptyStr

\* parse_number of the text right of "~"; None for a value that is not a text
weex_range_upper(v) ==
  CASE v.t = "None" -> Nothing
    [] v.t = "Num" -> Nothing
    [] v.t = "RangeStr" -> parse_number(NumStr(v.v))
    [] v.t = "RangeCommaStr" -> parse_number(CommaStr(v.v))
    [] OTHER -> parse_number(v)

\* lev = rb.get("maxOpenPosLeverage") or rb.get("initialLeverage"), ...
load_binance_tier(rb) ==
  [lev |-> PyOr(rb.lev, rb.lev2), cap |-> PyOr(rb.cap, rb.cap2), mmr |-> PyOr(rb.mmr, rb.mmr2)]

load_binance(rbs) == [i \in 1..Len(rbs) |-> load_binance_tier(rbs[i])]

EX_ORDER == <<"binance", "weex", "mexc", "bybit", "surf">>

\* the block title of a venue ("MECX" as in the sample sheet)
ex_upper(ex) ==
  CASE ex = "binance" -> "BINANCE"
    [] ex = "bybit" -> "BYBIT"
    [] ex = "mexc" -> "MECX"
    [] ex = "weex" -> "WEEX"
    [] OTHER -> "SURF"

\* key=lambda x: parse_number(x.get("mlev")) or 0
tier_sort_key(t) == OptOr(parse_number(t.lev), Some(0)).val

\* sorted(tiers, key=...): stable, ascending
InsertByKeyAsc(s, t) ==
  LET k == Cardinality({i \in 1..Len(s) : tier_sort_key(s[i]) <= tier_sort_key(t)})
  IN  SubSeq(s, 1, k) \o <<t>> \o SubSeq(s, k + 1, Len(s))

RECURSIVE sorted_tiers(_)
sorted_tiers(s) ==
  IF s = <<>> THEN <<>>
  ELSE InsertByKeyAsc(sorted_tiers(SubSeq(s, 1, Len(s) - 1)), s[Len(s)])

\* the notional cell of a tier
tier_notional(ex, t) ==
  CASE ex = "binance" -> OptCell(OptOr(parse_number(t.cap), parse_number(NoneV)))
    [] ex = "weex" -> OptCell(weex_range_upper(t.cap))
    [] OTHER -> OptCell(parse_number(t.cap))

\* the mmr cell of a tier: WEEX texts are passed through
tier_mmr(ex, t) == IF ex = "weex" THEN PyOr(t.mmr, EmptyStr) ELSE to_percent_str(t.mmr)

\* rows.append([ex_name, lev, notional, mmr]); return rows or [[NAME, "", "", ""]]
rows_or_placeholder(ex, tiers) ==
  IF tiers = <<>> THEN << <<ex_upper(ex), EmptyStr, EmptyStr, EmptyStr>> >>
  ELSE [i \in 1..Len(tiers) |->
          <<IF i = 1 THEN ex_upper(ex) ELSE "", to_leverage_str(tiers[i].lev),
            tier_notional(ex, tiers[i]), tier_mmr(ex, tiers[i])>>]

\* the SURF block keeps the source order, the others sort by leverage
build_rows_for_exchange(ex, tiers) ==
  rows_or_placeholder(ex, IF ex = "surf" THEN tiers ELSE sorted_tiers(tiers))

\* sources[ex].get(sym, []): Binance tiers come out of load_binance
source_tiers(ex, src) == IF ex = "binance" THEN load_binance(src[ex]) ELSE src[ex]

\* html_payload[sym][ex_upper] = rows, for ex in EX_ORDER
make_excel(src) ==
  [E \in Venues |->
     LET ex == CHOOSE e \in {EX_ORDER[i] : i \in 1..Len(EX_ORDER)} : ex_upper(e) = E
     IN  build_rows_for_exchange(ex, source_tiers(ex, src))]

(***************************************************************************)
(* Inputs of the selector specification: row lists of one venue.           *)
(***************************************************************************)
SelLevs == {5, 10, 25}
SelCaps == {50000, 200000, 1000000}
\* the margin rate text of the tier (l, c): one distinct rate per tier, so that
\* a pick tells which tier it was taken from
SelMmrOf(l, c) == l * 4 + c \div 50000
SelThresholds == {10000, 50000, 150000, 200000, 1000000, 2000000}

SelRows ==
  {<<"", LevStr(l), Num(c), PctStr(SelMmrOf(l, c))>> : l \in SelLevs, c \in SelCaps}
  \cup {<<"", EmptyStr, EmptyStr, EmptyStr>>,          \* placeholder row
        <<"", LevStr(25), NoneV, PctStr(100)>>,        \* tier without a cap
        <<"", LevStr(25), Num(50000), JunkStr>>,       \* unparseable mmr
        <<"", LevStr(25)>>}                            \* short row

RECURSIVE SeqsUpTo(_, _)
SeqsUpTo(S, n) ==
  IF n = 0 THEN {<<>>}
  ELSE LET shorter == SeqsUpTo(S, n - 1)
       IN  shorter \cup {Append(s, x) : s \in {q \in shorter : Len(q) = n - 1}, x \in S}

\* the schedule of the spec's scenario, in every input order
ScenarioTiers ==
  {<<"", LevStr(5), Num(1000000), PctStr(40)>>,
   <<"", LevStr(10), Num(200000), PctStr(50)>>,
   <<"", LevStr(25), Num(50000), PctStr(100)>>}

ScenarioSchedules ==
  {s \in [1..3 -> ScenarioTiers] : \A i, j \in 1..3 : i # j => s[i] # s[j]}

\* tableMake writes the venue name into the first row of a block only
WithName(ex, rows) ==
  [i \in 1..Len(rows) |-> [rows[i] EXCEPT ![1] = IF i = 1 THEN ex ELSE ""]]

OneVenue(ex, rows) == [e \in Venues |-> IF e = ex THEN WithName(ex, rows) ELSE <<>>]

InitSelect ==
  /\ \E rows \in SeqsUpTo(SelRows, MaxRows) \cup ScenarioSchedules :
        payload = OneVenue("BINANCE", rows)
  /\ isMajor = FALSE
  /\ op = "init"
  /\ arg = <<>>
  /\ ret = <<>>

\* a selector that sorted rows itself (rows.sort(..., reverse=True)) instead of parsed
SelectMSR_sorting_rows(ex, S) ==
  /\ op' = "msr_select"
  /\ arg' = <<ex, S>>
  /\ ret' = msr_select_tier_for_threshold(payload[ex], S)
  /\ payload' = [payload EXCEPT ![ex] =
        IF \A i \in 1..(Len(payload[ex]) - 1) : payload[ex][i][3].v < payload[ex][i + 1][3].v
        THEN [i \in 1..Len(payload[ex]) |-> payload[ex][Len(payload[ex]) + 1 - i]]
        ELSE payload[ex]]
  /\ UNCHANGED isMajor

SelectMSR(ex, S) ==
  /\ op' = "msr_select"
  /\ arg' = <<ex, S>>
  /\ ret' = msr_select_tier_for_threshold(payload[ex], S)
  /\ UNCHANGED <<payload, isMajor>>

SelectAPP(ex, S) ==
  /\ op' = "app_select"
  /\ arg' = <<ex, S>>
  /\ ret' = app_select_tier_for_threshold(payload[ex], S)
  /\ UNCHANGED <<payload, isMajor>>

NextSelect ==
  \/ \E S \in SelThresholds : SelectMSR("BINANCE", S)
  \/ \E S \in SelThresholds : SelectAPP("BINANCE", S)

SpecSelect == InitSelect /\ [][NextSelect]_vars

(***************************************************************************)
(* Inputs of the street specification: the rows of the five venues of one  *)
(* symbol, at most MaxTotalRows rows in all.                               *)
(***************************************************************************)
StreetRows ==
  {<<"", LevStr(50), Num(50000), PctStr(100)>>,
   <<"", LevStr(20), Num(200000), PctStr(50)>>,
   <<"", LevStr(2), Num(1000000), PctStr(40)>>,
   <<"", LevStr(0), Num(1000000), PctStr(20)>>,
   <<"", LevStr(0), Num(50000), PctStr(20)>>,
   <<"", EmptyStr, EmptyStr, EmptyStr>>}

RECURSIVE RowsFor(_, _)
RowsFor(flat, ex) ==
  IF flat = <<>> THEN <<>>
  ELSE (IF Head(flat)[1] = ex THEN <<Head(flat)[2]>> ELSE <<>>) \o RowsFor(Tail(flat), ex)

PayloadOf(flat) == [ex \in Venues |-> WithName(ex, RowsFor(flat, ex))]

InitStreet ==
  /\ \E flat \in SeqsUpTo(Venues \X StreetRows, MaxTotalRows) : payload = PayloadOf(flat)
  /\ isMajor \in BOOLEAN
  /\ op = "init"
  /\ arg = <<>>
  /\ ret = <<>>

Thresholds == {TiersOf(isMajor)[i] : i \in 1..Len(TiersOf(isMajor))}

StreetMSR(S) ==
  /\ op' = "msr_street"
  /\ arg' = <<S>>
  /\ ret' = msr_street_for_symbol(payload, S)
  /\ UNCHANGED <<payload, isMajor>>

StreetAPP(S) ==
  /\ op' = "app_street"
  /\ arg' = <<S>>
  /\ ret' = app_street_for_symbol(payload, S)
  /\ UNCHANGED <<payload, isMajor>>

BuildSuggestRuleTable ==
  /\ op' = "build_suggest_rule_table"
  /\ arg' = <<>>
  /\ ret' = build_suggest_rule_table(isMajor, payload)
  /\ UNCHANGED <<payload, isMajor>>

WriteSheet ==
  /\ op' = "write_sheet"
  /\ arg' = <<>>
  /\ ret' = write_sheet(isMajor, payload)
  /\ UNCHANGED <<payload, isMajor>>

NextStreet ==
  \/ \E S \in Thresholds : StreetMSR(S)
  \/ \E S \in Thresholds : StreetAPP(S)
  \/ BuildSuggestRuleTable
  \/ WriteSheet

SpecStreet == InitStreet /\ [][NextStreet]_vars

(***************************************************************************)
(* Inputs of the synthesizer specification: one venue with a schedule of   *)
(* up to MaxRows rows, so that the best leverage differs from threshold to *)
(* threshold.                                                              *)
(***************************************************************************)
SugRows ==
  {<<"", LevStr(100), Num(10000), PctStr(100)>>,
   <<"", LevStr(50), Num(50000), PctStr(100)>>,
   <<"", LevStr(20), Num(200000), PctStr(50)>>,
   <<"", LevStr(2), Num(1000000), PctStr(40)>>,
   <<"", EmptyStr, EmptyStr, EmptyStr>>}

InitSuggest ==
  /\ \E rows \in SeqsUpTo(SugRows, MaxRows) : payload = OneVenue("BINANCE", rows)
  /\ isMajor \in BOOLEAN
  /\ op = "init"
  /\ arg = <<>>
  /\ ret = <<>>

NextSuggest ==
  \/ \E S \in Thresholds : StreetAPP(S)
  \/ BuildSuggestRuleTable

SpecSuggest == InitSuggest /\ [][NextSuggest]_vars

(***************************************************************************)
(* Inputs of the leverage-union specification: the rows of the first and   *)
(* the last participating venue and of the reference venue, at most        *)
(* MaxUnionRows rows in all.                                               *)
(***************************************************************************)
UnionVenues == {"BINANCE", "BYBIT", "SURF"}

UnionRows ==
  {<<"", LevStr(20), Num(200000), PctStr(50)>>,
   <<"", LevStr(20), Num(50000), PctStr(100)>>,
   <<"", LevStr(20), NoneV, PctStr(40)>>,            \* tier without a cap
   <<"", LevStr(50), Num(50000), EmptyStr>>,         \* tier without an mmr
   <<"", LevStr6(19999999), Num(200000), PctStr(50)>>,
   <<"", EmptyStr, EmptyStr, EmptyStr>>,             \* placeholder row
   <<"", LevStr(50)>>}                               \* short row

InitUnion ==
  /\ \E flat \in SeqsUpTo(UnionVenues \X UnionRows, MaxUnionRows) : payload = PayloadOf(flat)
  /\ isMajor = FALSE
  /\ op = "init"
  /\ arg = <<>>
  /\ ret = <<>>

BuildAggregateUnionTable ==
  /\ op' = "build_aggregate_union_table"
  /\ arg' = <<>>
  /\ ret' = build_aggregate_union_table(payload)
  /\ UNCHANGED <<payload, isMajor>>

NextUnion == BuildAggregateUnionTable

SpecUnion == InitUnion /\ [][NextUnion]_vars

(***************************************************************************)
(* The pipeline specification: make_excel normalizes the venues' source    *)
(* tiers of one symbol into the payload, at most MaxSourceTiers tiers in   *)
(* all, and the selectors and the street reduction read that payload.      *)
(***************************************************************************)
Tier(l, c, m) == [lev |-> l, cap |-> c, mmr |-> m]
Bracket(l, c, m, m2) ==
  [lev |-> l, lev2 |-> NoneV, cap |-> c, cap2 |-> NoneV, mmr |-> m, mmr2 |-> m2]

SourceTiers(ex) ==
  CASE ex = "binance" ->
         {Bracket(Num(50), Num(50000), Num(10000), NoneV),
          Bracket(Num(20), Num(200000), Num(0), NoneV),       \* mmr exactly zero
          Bracket(Num(20), Num(200000), NoneV, Num(0)),       \* zero under the 2nd key
          Bracket(Num(50), NoneV, Num(5000), NoneV)}          \* no cap
    [] ex = "weex" ->
         {Tier(LevStr(50), RangeStr(50000), PctStr(100)),
          Tier(LevStr(20), RangeCommaStr(200000), PctStr(0)), \* "0~200,000", "0.00%"
          Tier(LevStr(20), JunkStr, EmptyStr)}                \* no cap, no mmr
    [] OTHER ->
         {Tier(Num(50), Num(50000), Num(10000)),
          Tier(NumStr(20), Num(200000), Num(0)),              \* mmr exactly zero
          Tier(Num(50), NoneV, Num(5000)),                    \* no cap
          Tier(Num(20), Num(200000), NoneV)}                  \* no mmr

Adapters == {EX_ORDER[i] : i \in 1..Len(EX_ORDER)}

SourceOf(flat) == [ex \in Adapters |-> RowsFor(flat, ex)]

Sources ==
  {SourceOf(flat) :
     flat \in SeqsUpTo(UNION {{<<ex, t>> : t \in SourceTiers(ex)} : ex \in Adapters},
                       MaxSourceTiers)}

InitPipeline ==
  /\ payload = [e \in Venues |-> <<>>]
  /\ isMajor = FALSE
  /\ op = "init"
  /\ arg = <<>>
  /\ ret = <<>>

MakeExcel(src) ==
  /\ op = "init"
  /\ op' = "make_excel"
  /\ arg' = src
  /\ payload' = make_excel(src)
  /\ ret' = payload'
  /\ UNCHANGED isMajor

NextPipeline ==
  \/ \E src \in Sources : MakeExcel(src)
  \/ op # "init" /\ \E ex \in Venues, S \in Thresholds : SelectMSR(ex, S)
  \/ op # "init" /\ \E S \in Thresholds : StreetMSR(S)
  \/ op # "init" /\ \E S \in Thresholds : StreetAPP(S)

SpecPipeline == InitPipeline /\ [][NextPipeline]_vars

(***************************************************************************)
(* The parsing specification: parse_number and weex_range_upper on one     *)
(* raw value.                                                              *)
(***************************************************************************)
ParseAmounts == {n * 1000 : n \in 1..MaxParseThousands} \cup {1000000, 25000000}

ParseInputs ==
  {NoneV, EmptyStr, JunkStr}
  \cup {Num(n) : n \in ParseAmounts} \cup {NumStr(n) : n \in ParseAmounts}
  \cup {CommaStr(n) : n \in ParseAmounts}
  \cup {RangeStr(n) : n \in ParseAmounts} \cup {RangeCommaStr(n) : n \in ParseAmounts}

ParseNumber(v) ==
  /\ op' = "parse_number"
  /\ arg' = v
  /\ ret' = parse_number(v)
  /\ UNCHANGED <<payload, isMajor>>

WeexRangeUpper(v) ==
  /\ op' = "weex_range_upper"
  /\ arg' = v
  /\ ret' = weex_range_upper(v)
  /\ UNCHANGED <<payload, isMajor>>

NextParse ==
  \/ \E v \in ParseInputs : ParseNumber(v)
  \/ \E v \in ParseInputs : WeexRangeUpper(v)

SpecParse == InitPipeline /\ [][NextParse]_vars

(***************************************************************************)
(* The rounding specification: _round_leverage on x = n/10.                *)
(***************************************************************************)
InitRound ==
  /\ payload = [e \in Venues |-> <<>>]
  /\ isMajor = FALSE
  /\ op = "init"
  /\ arg = <<>>
  /\ ret = <<>>

RoundLeverage(x) ==
  /\ op' = "round_leverage"
  /\ arg' = x
  /\ ret' = app_round_leverage(x)
  /\ UNCHANGED <<payload, isMajor>>

\* x = n/10 from 0 up to MaxRoundTenths/10, and the tenths around LEV_MAX
RoundInputs ==
  {<<n, 10>> : n \in 0..MaxRoundTenths}
  \cup {<<LEV_MAX * 10 + k, 10>> : k \in -30..30}

NextRound == \E x \in RoundInputs : RoundLeverage(x)

SpecRound == InitRound /\ [][NextRound]_vars

(***************************************************************************)
(* Vocabulary of the properties: the complete tiers of a row list as a     *)
(* selector sees them (k is "msr" or "app").                               *)
(***************************************************************************)
TierAt(k, r) ==
  [lev |-> IF k = "msr" THEN msr_lev_to_float(r[2]) ELSE app_lev_to_float(r[2]),
   cap |-> IF k = "msr" THEN msr_num(r[3]) ELSE app_num(r[3]),
   mmr |-> IF k = "msr" THEN msr_mmr_to_float(r[4]) ELSE app_mmr_to_float(r[4])]

Complete(k, rows) ==
  {i \in 1..Len(rows) :
     /\ Len(rows[i]) >= 4
     /\ TierAt(k, rows[i]).lev.some
     /\ TierAt(k, rows[i]).cap.some
     /\ TierAt(k, rows[i]).mmr.some}

LevOf(k, rows, i) == TierAt(k, rows[i]).lev.val
CapOf(k, rows, i) == TierAt(k, rows[i]).cap.val
MmrOf(k, rows, i) == TierAt(k, rows[i]).mmr.val
PickOf(k, rows, i) == Pick(LevOf(k, rows, i), MmrOf(k, rows, i))

Selecting == op \in {"msr_select", "app_select"}
Kind == IF op = "msr_select" THEN "msr" ELSE "app"
SelRowsArg == payload[arg[1]]
SelS == arg[2]

\* every complete tier covers S, and there is one
AllCover(k, rows, S) ==
  /\ Complete(k, rows) # {}
  /\ \A i \in Complete(k, rows) : CapOf(k, rows, i) >= S

HasMaxLev(k, rows, i) ==
  \A j \in Complete(k, rows) : LevOf(k, rows, j) <= LevOf(k, rows, i)

HasMinCap(k, rows, i) ==
  \A j \in Complete(k, rows) : CapOf(k, rows, i) <= CapOf(k, rows, j)

\* cap strictly decreases as leverage increases
CapDecreasesWithLev(k, rows) ==
  \A i, j \in Complete(k, rows) :
     LevOf(k, rows, i) < LevOf(k, rows, j) => CapOf(k, rows, i) > CapOf(k, rows, j)

\* ... and no two tiers share a leverage or a cap
StrictSchedule(k, rows) ==
  \A i, j \in Complete(k, rows) :
     i # j => \/ LevOf(k, rows, i) < LevOf(k, rows, j) /\ CapOf(k, rows, i) > CapOf(k, rows, j)
              \/ LevOf(k, rows, i) > LevOf(k, rows, j) /\ CapOf(k, rows, i) < CapOf(k, rows, j)

(***************************************************************************)
(* C1.  make_suggest_rules._select_tier_for_threshold returns the          *)
(* (leverage, mmr) of a complete tier whose cap is the smallest cap that   *)
(* is still >= S, and None exactly when no complete tier has cap >= S.     *)
(***************************************************************************)
C1_SmallestCoveringCap ==
  op = "msr_select" =>
    LET rows == SelRowsArg
        cov == {i \in Complete("msr", rows) : CapOf("msr", rows, i) >= SelS}
    IN  IF cov = {} THEN ret = NoPick
        ELSE \E i \in cov :
               /\ \A j \in cov : CapOf("msr", rows, i) <= CapOf("msr", rows, j)
               /\ ret = PickOf("msr", rows, i)

\* an unsorted list with an incomplete row, a tier below S and two covering
\* tiers of different caps
C1_Witness ==
  /\ op = "msr_select"
  /\ ret.some
  /\ LET rows == SelRowsArg
         T == Complete("msr", rows)
     IN  /\ Len(rows) = 3
         /\ \E i, j \in T : /\ i < j
                            /\ SelS <= CapOf("msr", rows, i)
                            /\ CapOf("msr", rows, i) < CapOf("msr", rows, j)
         /\ \E i \in 1..Len(rows) : i \notin T

(***************************************************************************)
(* C2 as stated.  When every tier's cap is >= S the selector returns the   *)
(* tier with the largest leverage, for every schedule, also one that       *)
(* violates cap-decreases-as-leverage-increases.                           *)
(***************************************************************************)
C2_MaxLevWhenAllCover ==
  op = "msr_select" /\ AllCover("msr", SelRowsArg, SelS) =>
    \E i \in Complete("msr", SelRowsArg) :
       HasMaxLev("msr", SelRowsArg, i) /\ ret = PickOf("msr", SelRowsArg, i)

(***************************************************************************)
(* C2 amended.  When every tier's cap is >= S the selector returns a tier  *)
(* with the smallest cap; that tier has the largest leverage of the        *)
(* schedule whenever cap strictly decreases as leverage increases,         *)
(* whatever the input order.                                               *)
(***************************************************************************)
C2_MinCapWhenAllCover ==
  op = "msr_select" /\ AllCover("msr", SelRowsArg, SelS) =>
    \E i \in Complete("msr", SelRowsArg) :
       /\ HasMinCap("msr", SelRowsArg, i)
       /\ ret = PickOf("msr", SelRowsArg, i)
       /\ CapDecreasesWithLev("msr", SelRowsArg) => HasMaxLev("msr", SelRowsArg, i)

\* three tiers of three leverages, largest leverage first in the input
C2_Witness ==
  /\ op = "msr_select"
  /\ AllCover("msr", SelRowsArg, SelS)
  /\ StrictSchedule("msr", SelRowsArg)
  /\ Complete("msr", SelRowsArg) = 1..3
  /\ HasMaxLev("msr", SelRowsArg, 1)
  /\ ret = PickOf("msr", SelRowsArg, 1)

(***************************************************************************)
(* C3.  streamlit_app._select_tier_for_threshold returns None whenever S   *)
(* exceeds every tier's cap; it never returns a tier whose cap is below S. *)
(***************************************************************************)
C3_AppAbsentAboveEveryCap ==
  op = "app_select" =>
    LET rows == SelRowsArg
        cov == {i \in Complete("app", rows) : CapOf("app", rows, i) >= SelS}
    IN  /\ cov = {} => ret = NoPick
        /\ ret.some => \E i \in cov : ret = PickOf("app", rows, i)

(***************************************************************************)
(* C4.  streamlit_app._select_tier_for_threshold returns the               *)
(* largest-leverage tier, never None, whenever there is a complete tier    *)
(* and every tier's cap is >= S.                                           *)
(***************************************************************************)
C4_AppMaxLevWhenAllCover ==
  op = "app_select" /\ AllCover("app", SelRowsArg, SelS) =>
    /\ ret.some
    /\ \E i \in Complete("app", SelRowsArg) :
          HasMaxLev("app", SelRowsArg, i) /\ ret = PickOf("app", SelRowsArg, i)

(***************************************************************************)
(* C5.  On a schedule in which cap strictly decreases as leverage          *)
(* increases, a threshold equal to a tier's cap selects that tier, for     *)
(* every tier of the schedule and in both selectors.                       *)
(***************************************************************************)
C5_BoundaryPicksThatTier ==
  Selecting /\ StrictSchedule(Kind, SelRowsArg) =>
    \A i \in Complete(Kind, SelRowsArg) :
       CapOf(Kind, SelRowsArg, i) = SelS => ret = PickOf(Kind, SelRowsArg, i)

(***************************************************************************)
(* C6.  On the schedule (5x, 1,000,000, 0.4%), (10x, 200,000, 0.5%),       *)
(* (25x, 50,000, 1%), in any input order, both selectors return            *)
(* (10x, 0.5%) for S = 150,000, None for S = 2,000,000 and (25x, 1%) for   *)
(* S = 10,000.                                                             *)
(***************************************************************************)
IsScenario(k, rows) ==
  /\ Len(rows) = 3
  /\ Complete(k, rows) = 1..3
  /\ {<<LevOf(k, rows, i), CapOf(k, rows, i), MmrOf(k, rows, i)>> : i \in 1..3}
       = {<<5, 1000000, 4000>>, <<10, 200000, 5000>>, <<25, 50000, 10000>>}

C6_Scenario ==
  Selecting /\ IsScenario(Kind, SelRowsArg) =>
    /\ SelS = 150000 => ret = Pick(10, 5000)
    /\ SelS = 2000000 => ret = NoPick
    /\ SelS = 10000 => ret = Pick(25, 10000)

(***************************************************************************)
(* C7.  _street_for_symbol returns the maximum leverage and the minimum    *)
(* mmr over the non-absent picks of BINANCE, WEEX, MECX and BYBIT (never   *)
(* SURF); each recorded source is a venue whose pick has exactly that      *)
(* value, and the two sources are chosen independently.                    *)
(***************************************************************************)
Participating == {"BINANCE", "WEEX", "MECX", "BYBIT"}

StreetOver(picks, st) ==
  LET P == {ex \in Participating : picks[ex].some}
  IN  IF P = {} THEN ~st.lev.some /\ ~st.mmr.some
      ELSE /\ st.lev.some
           /\ st.mmr.some
           /\ \E ex \in P : picks[ex].lev = st.lev.val
           /\ \E ex \in P : picks[ex].mmr = st.mmr.val
           /\ \A ex \in P : picks[ex].lev <= st.lev.val /\ st.mmr.val <= picks[ex].mmr

C7_StreetIsMaxLevMinMmr ==
  /\ op = "msr_street" =>
       LET picks == [ex \in Participating |->
                       msr_select_tier_for_threshold(payload[ex], arg[1])]
       IN  /\ StreetOver(picks, ret)
           /\ IF ret.lev.some
              THEN /\ ret.lev_src \in Participating
                   /\ picks[ret.lev_src] # NoPick
                   /\ picks[ret.lev_src].lev = ret.lev.val
                   /\ ret.mmr_src \in Participating
                   /\ picks[ret.mmr_src] # NoPick
                   /\ picks[ret.mmr_src].mmr = ret.mmr.val
              ELSE ret.lev_src = "" /\ ret.mmr_src = ""
  /\ op = "app_street" =>
       StreetOver([ex \in Participating |->
                     app_select_tier_for_threshold(payload[ex], arg[1])], ret)

\* the best leverage and the best mmr come from two different venues
C7_Witness ==
  /\ op = "msr_street"
  /\ ret.lev.some
  /\ ret.lev_src # ret.mmr_src

(***************************************************************************)
(* C8.  The core never raises for malformed data: build_suggest_rule_table *)
(* and the per-threshold computation of generate_excel complete and yield  *)
(* one record per threshold.                                               *)
(***************************************************************************)
C8_CoreNeverRaises ==
  op \in {"build_suggest_rule_table", "write_sheet"} =>
    /\ ~ret.raised
    /\ Len(ret.recs) = Len(TiersOf(isMajor))

(***************************************************************************)
(* C9.  _round_leverage returns a value in [1, LEV_MAX] that is the        *)
(* multiple of LEV_STEP nearest to x clamped to [1, LEV_MAX].              *)
(***************************************************************************)
Clamped(x) == FracMin(<<LEV_MAX, 1>>, FracMax(<<1, 1>>, x))
\* |m - c| as a fraction
Dist(m, c) ==
  IF m * c[2] >= c[1] THEN <<m * c[2] - c[1], c[2]>> ELSE <<c[1] - m * c[2], c[2]>>

C9_RoundInRangeNearest ==
  op = "round_leverage" =>
    /\ 1 <= ret
    /\ ret <= LEV_MAX
    /\ ret % LEV_STEP = 0
    /\ \A q \in 0..(LEV_MAX \div LEV_STEP) :
          FracLE(Dist(ret, Clamped(arg)), Dist(q * LEV_STEP, Clamped(arg)))

(***************************************************************************)
(* C10.  For the topmost threshold build_suggest_rule_table yields         *)
(* suggested_leverage = round_to_increment(best_leverage x 1.10) and the   *)
(* margin rate min(max(FLOOR, alpha_top / suggested_leverage),             *)
(* best_mmr x 0.90), which is never greater than 0.90 x best_mmr.  The     *)
(* best leverage is a leverage of a tier, hence positive.                  *)
(***************************************************************************)
TopS == TiersOf(isMajor)[Len(TiersOf(isMajor))]
TopStreet == app_street_for_symbol(payload, TopS)

C10_TopmostRule ==
  op = "build_suggest_rule_table" /\ TopStreet.lev.some /\ TopStreet.lev.val >= 1 =>
    /\ ~ret.raised
    /\ Len(ret.recs) = Len(TiersOf(isMajor))
    /\ LET rec == ret.recs[Len(ret.recs)]
           best_lev == TopStreet.lev.val
           best_mmr == TopStreet.mmr.val
       IN  /\ rec.position = TopS
           /\ rec.sug_lev = app_round_leverage(<<best_lev * 11, 10>>)
           /\ rec.sug_lev >= 1
           /\ FracEq(rec.sug_mmr,
                     FracMin(FracMax(<<MMR_FLOOR, 1>>, <<2 * ONE, 5 * rec.sug_lev>>),
                             <<best_mmr * 9, 10>>))
           /\ FracLE(rec.sug_mmr, <<best_mmr * 9, 10>>)

(***************************************************************************)
(* Vocabulary of the synthesizer properties: the best leverage and mmr of  *)
(* the threshold at index idx, as build_suggest_rule_table obtains them.   *)
(***************************************************************************)
BestAt(idx) == app_street_for_symbol(payload, TiersOf(isMajor)[idx])
NumTiers == Len(TiersOf(isMajor))
Built == op = "build_suggest_rule_table"

(***************************************************************************)
(* C11.  For every non-topmost threshold build_suggest_rule_table yields   *)
(* suggested_leverage = round_to_increment(best_leverage x 0.90) and the   *)
(* margin rate min(max(FLOOR, alpha_mid / suggested_leverage), best_mmr),  *)
(* which is never greater than best_mmr.  The best leverage is a leverage  *)
(* of a tier, hence positive.                                              *)
(***************************************************************************)
C11_NonTopmostRule ==
  Built =>
    \A idx \in 1..(NumTiers - 1) :
       BestAt(idx).lev.some /\ BestAt(idx).lev.val >= 1 =>
         /\ ~ret.raised
         /\ Len(ret.recs) = NumTiers
         /\ LET rec == ret.recs[idx]
                best_lev == BestAt(idx).lev.val
                best_mmr == BestAt(idx).mmr.val
            IN  /\ rec.position = TiersOf(isMajor)[idx]
                /\ rec.sug_lev = app_round_leverage(<<best_lev * 9, 10>>)
                /\ rec.sug_lev >= 1
                /\ FracEq(rec.sug_mmr,
                          FracMin(FracMax(<<MMR_FLOOR, 1>>, <<ONE, 2 * rec.sug_lev>>),
                                  <<best_mmr, 1>>))
                /\ FracLE(rec.sug_mmr, <<best_mmr, 1>>)

(***************************************************************************)
(* C12 as stated.  If the best leverage is present at every threshold and  *)
(* non-increasing as the threshold grows, the suggested leverage of the    *)
(* table is non-increasing as the threshold grows, the step from the       *)
(* second-largest to the topmost threshold included.                       *)
(***************************************************************************)
MonotoneBest ==
  /\ \A i \in 1..NumTiers : BestAt(i).lev.some
  /\ \A i, j \in 1..NumTiers : i < j => BestAt(i).lev.val >= BestAt(j).lev.val

C13_DefaultBaseAndAllRecords ==
  Built =>
    /\ ~ret.raised
    /\ Len(ret.recs) = NumTiers
    /\ \A idx \in 1..NumTiers :
          ~BestAt(idx).lev.some =>
            ret.recs[idx].sug_lev =
              app_round_leverage(<<DEFAULT_BASE_LEV * (IF idx = NumTiers THEN 11 ELSE 9), 10>>)

(***************************************************************************)
(* C14.  When no participating venue covers a threshold, the record that   *)
(* generate_excel writes for it is empty (leverage, mmr, both sources and  *)
(* IM blank or None, never a default number), and the other thresholds of  *)
(* the symbol are still written: one record per threshold, in threshold    *)
(* order.                                                                  *)
(***************************************************************************)
Uncovered(S) ==
  \A ex \in Participating : msr_select_tier_for_threshold(payload[ex], S) = NoPick

EmptyRecord(S) ==
  [raised |-> FALSE, position |-> S, leverage_value |-> Nothing,
   leverage_display |-> EmptyStr, max_lev_source |-> "",
   mmr_value |-> Nothing, mmr_display |-> EmptyStr,
   min_mmr_source |-> "", im_value |-> Nothing]

C14_UncoveredIsEmptyOthersWritten ==
  op = "write_sheet" =>
    \A idx \in 1..NumTiers :
       Uncovered(TiersOf(isMajor)[idx]) =>
         /\ ~ret.raised
         /\ Len(ret.recs) = NumTiers
         /\ \A j \in 1..NumTiers : ret.recs[j].position = TiersOf(isMajor)[j]
         /\ ret.recs[idx] = EmptyRecord(TiersOf(isMajor)[idx])

(***************************************************************************)
(* Vocabulary of the leverage-union properties: the tiers of the           *)
(* participating venues that carry a leverage, as <<venue, row index>>.    *)
(***************************************************************************)
UnionTiers ==
  UNION {{<<ex, i>> : i \in {k \in 1..Len(payload[ex]) :
                                /\ Len(payload[ex][k]) >= 4
                                /\ union_lev(payload[ex][k][2]).some}} :
         ex \in Participating}

UnionLevOf(t) == union_lev(payload[t[1]][t[2]][2]).val
UnionCapOf(t) == app_num(payload[t[1]][t[2]][3])
UnionMmrOf(t) == app_mmr_to_float(payload[t[1]][t[2]][4])
UnionBuilt == op = "build_aggregate_union_table"

(***************************************************************************)
(* C15.  build_aggregate_union_table produces exactly one record per       *)
(* distinct leverage value of the participating venues' schedules, in      *)
(* ascending leverage; the record's max position is the largest present    *)
(* cap and its min mmr the smallest present mmr among the tiers of that    *)
(* leverage, each labelled with a venue that offers that value; a tier     *)
(* without a cap or without an mmr is left out of that reduction only.     *)
(***************************************************************************)
C15_UnionPerLeverage ==
  UnionBuilt =>
    /\ {ret[i].lev : i \in 1..Len(ret)} = {UnionLevOf(t) : t \in UnionTiers}
    /\ \A i, j \in 1..Len(ret) : i < j => ret[i].lev < ret[j].lev
    /\ \A i \in 1..Len(ret) :
          LET G == {t \in UnionTiers : UnionLevOf(t) = ret[i].lev}
              caps == {t \in G : UnionCapOf(t).some}
              mmrs == {t \in G : UnionMmrOf(t).some}
          IN  /\ IF caps = {} THEN ~ret[i].max_pos_val.some /\ ret[i].max_pos_ex = ""
                 ELSE /\ ret[i].max_pos_val.some
                      /\ \A t \in caps : UnionCapOf(t).val <= ret[i].max_pos_val.val
                      /\ \E t \in caps : /\ UnionCapOf(t) = ret[i].max_pos_val
                                         /\ t[1] = ret[i].max_pos_ex
              /\ IF mmrs = {} THEN ~ret[i].min_mmr_val.some /\ ret[i].min_mmr_ex = ""
                 ELSE /\ ret[i].min_mmr_val.some
                      /\ \A t \in mmrs : ret[i].min_mmr_val.val <= UnionMmrOf(t).val
                      /\ \E t \in mmrs : /\ UnionMmrOf(t) = ret[i].min_mmr_val
                                         /\ t[1] = ret[i].min_mmr_ex

\* two leverage values; in one bucket the largest cap and the smallest mmr
\* come from different venues, the smallest mmr from a tier without a cap
C15_Witness ==
  /\ UnionBuilt
  /\ Len(ret) >= 2
  /\ \E i \in 1..Len(ret) :
        /\ ret[i].max_pos_val.some
        /\ ret[i].min_mmr_val.some
        /\ ret[i].max_pos_ex # ret[i].min_mmr_ex
        /\ \E t \in UnionTiers : /\ UnionLevOf(t) = ret[i].lev
                                 /\ ~UnionCapOf(t).some
                                 /\ UnionMmrOf(t) = ret[i].min_mmr_val

(***************************************************************************)
(* C16.  Two venues reporting leverage 20.0 and 19.999999 for the same     *)
(* symbol are merged into one bucket of the leverage-union table: no two   *)
(* records have leverage keys that agree after rounding to a fixed         *)
(* precision (here four decimals).                                         *)
(***************************************************************************)
RoundTo4(lev) == RoundHalfEven(<<lev, 100>>)

C16_NearEqualLeveragesMerge ==
  UnionBuilt =>
    \A i, j \in 1..Len(ret) : i # j => RoundTo4(ret[i].lev) # RoundTo4(ret[j].lev)

(***************************************************************************)
(* Vocabulary of the normalizer properties: the raw value a source tier    *)
(* carries in a field (of a Binance bracket the first key that is there),  *)
(* and the block make_excel wrote for an adapter.                          *)
(***************************************************************************)
SourceMmr(ex, t) == IF ex = "binance" /\ t.mmr.t = "None" THEN t.mmr2 ELSE t.mmr
SourceCap(ex, t) == IF ex = "binance" /\ t.cap.t = "None" THEN t.cap2 ELSE t.cap
IsZero(v) == v \in {Num(0), NumStr(0), PctStr(0)}
IsUnderivable(v) == v \in {NoneV, EmptyStr, JunkStr}
BlockOf(ex) == payload[ex_upper(ex)]
PlaceholderBlock(E) == << <<E, EmptyStr, EmptyStr, EmptyStr>> >>
Made == op = "make_excel"
Count(S) == Cardinality(S)

(***************************************************************************)
(* C17.  In every venue adapter a tier whose maintenance-margin rate is    *)
(* exactly zero is normalized to a present zero rate (the cell "0.00%",    *)
(* parsed back as 0.0) and a tier whose rate cannot be derived to a blank  *)
(* cell that parses as None: the block has as many zero-rate rows as the   *)
(* source has zero-rate tiers and as many blank ones as the source has     *)
(* tiers without a rate.                                                   *)
(***************************************************************************)
C17_ZeroAndAbsentKeptApart ==
  Made =>
    \A ex \in Adapters :
       arg[ex] # <<>> =>
         /\ Len(BlockOf(ex)) = Len(arg[ex])
         /\ Count({i \in 1..Len(BlockOf(ex)) :
                     /\ BlockOf(ex)[i][4] = PctStr(0)
                     /\ msr_mmr_to_float(BlockOf(ex)[i][4]) = Some(0)})
              = Count({i \in 1..Len(arg[ex]) : IsZero(SourceMmr(ex, arg[ex][i]))})
         /\ Count({i \in 1..Len(BlockOf(ex)) :
                     /\ BlockOf(ex)[i][4] \in {EmptyStr, NoneV}
                     /\ msr_mmr_to_float(BlockOf(ex)[i][4]) = Nothing})
              = Count({i \in 1..Len(arg[ex]) : IsUnderivable(SourceMmr(ex, arg[ex][i]))})

(***************************************************************************)
(* C18.  A venue with zero tiers abstains without disturbing the others:   *)
(* its block is the single placeholder row with blank leverage, cap and    *)
(* mmr, the selector returns None on that block for every threshold, and   *)
(* the street of the symbol is the street of the remaining venues alone.   *)
(***************************************************************************)
Abstaining == {E \in Venues : payload[E] = PlaceholderBlock(E)}

C18_EmptyVenueAbstains ==
  /\ Made => \A ex \in Adapters : arg[ex] = <<>> => ex_upper(ex) \in Abstaining
  /\ op = "msr_select" /\ arg[1] \in Abstaining => ret = NoPick
  /\ op = "msr_street" =>
       /\ StreetOver([E \in Participating |->
                        IF E \in Abstaining THEN NoPick
                        ELSE msr_select_tier_for_threshold(payload[E], arg[1])], ret)
       /\ ret.lev_src \notin Abstaining
       /\ ret.mmr_src \notin Abstaining
  /\ op = "app_street" =>
       StreetOver([E \in Participating |->
                     IF E \in Abstaining THEN NoPick
                     ELSE app_select_tier_for_threshold(payload[E], arg[1])], ret)

\* one participating venue has no tier, another one supplies the street
C18_Witness ==
  /\ op = "msr_street"
  /\ Abstaining \cap Participating # {}
  /\ ret.lev.some
  /\ ret.lev_src \in Participating \ Abstaining

(***************************************************************************)
(* C19.  A tier lacking a notional cap is still present in the venue's     *)
(* emitted row list, is never returned by the selector for any threshold,  *)
(* and its presence does not change which of the other tiers is selected.  *)
(***************************************************************************)
\* the cap cell of the row is a number
HasCap(r) == Len(r) >= 4 /\ r[3].t = "Num"

RECURSIVE CappedRows(_)
CappedRows(rows) ==
  IF rows = <<>> THEN <<>>
  ELSE (IF HasCap(Head(rows)) THEN <<Head(rows)>> ELSE <<>>) \o CappedRows(Tail(rows))

C19_CaplessTierKeptNotSelected ==
  /\ Made =>
       \A ex \in Adapters :
          arg[ex] # <<>> =>
            /\ Len(BlockOf(ex)) = Len(arg[ex])
            /\ Count({i \in 1..Len(BlockOf(ex)) : BlockOf(ex)[i][3] = NoneV})
                 = Count({i \in 1..Len(arg[ex]) : IsUnderivable(SourceCap(ex, arg[ex][i]))})
  /\ op = "msr_select" =>
       /\ ret.some =>
            \E i \in 1..Len(SelRowsArg) :
               /\ HasCap(SelRowsArg[i])
               /\ SelRowsArg[i][3].v >= SelS
               /\ msr_lev_to_float(SelRowsArg[i][2]).some
               /\ msr_mmr_to_float(SelRowsArg[i][4]).some
               /\ ret = Pick(msr_lev_to_float(SelRowsArg[i][2]).val,
                             msr_mmr_to_float(SelRowsArg[i][4]).val)
       /\ ret = msr_select_tier_for_threshold(CappedRows(SelRowsArg), SelS)

\* the block holds a tier without a cap beside a tier whose cap is below S: the
\* selector returns None and not the tier without a cap
C19_Witness ==
  /\ op = "msr_select"
  /\ ret = NoPick
  /\ \E i, j \in 1..Len(SelRowsArg) :
        /\ ~HasCap(SelRowsArg[i])
        /\ msr_lev_to_float(SelRowsArg[i][2]).some
        /\ msr_mmr_to_float(SelRowsArg[i][4]).some
        /\ HasCap(SelRowsArg[j])
        /\ SelRowsArg[j][3].v < SelS

(***************************************************************************)
(* C20.  Normalizing a notional cap given as text yields the full number   *)
(* the text denotes, also with thousands separators (the upper bound of    *)
(* "0~1,000,000" is 1000000, not 1), and text without a number yields      *)
(* missing.                                                                *)
(***************************************************************************)
Denoted(v) ==
  CASE v.t \in {"Num", "NumStr", "CommaStr", "RangeStr", "RangeCommaStr"} -> Some(v.v)
    [] OTHER -> Nothing

C20_FullNumberOfFormattedText ==
  /\ op = "parse_number" /\ arg.t \notin {"RangeStr", "RangeCommaStr"} => ret = Denoted(arg)
  /\ op = "weex_range_upper" /\ arg.t # "Num" => ret = Denoted(arg)

(***************************************************************************)
(* make_suggest_rules._build_groups and the per-symbol loop of             *)
(* generate_excel.  The files read are kept in payload as a record: data   *)
(* (symbol -> venue -> rows), cmc (the ranked list of names, or no file)   *)
(* and surf_pairs (the <<base, quote>> pairs).                             *)
(***************************************************************************)
MaxRanked == 2
MaxPairs == 2

\* str(x).upper().strip() on the texts that occur in the inputs
upper_strip(s) ==
  CASE s = "eth" -> "ETH"
    [] s = " doge " -> "DOGE"
    [] s = "usdt" -> "USDT"
    [] OTHER -> s

RECURSIVE ranked_symbols(_)
\* for it in arr: s = name.upper().strip(); if s: majors.append(f"{s}USDT")
ranked_symbols(arr) ==
  IF arr = <<>> THEN <<>>
  ELSE (IF upper_strip(Head(arr)) # "" THEN <<upper_strip(Head(arr)) \o "USDT">> ELSE <<>>)
       \o ranked_symbols(Tail(arr))

RECURSIVE surf_symbols(_)
\* for p in pairs: if base and quote == "USDT": all_syms.append(f"{base}{quote}")
surf_symbols(pairs) ==
  IF pairs = <<>> THEN <<>>
  ELSE (IF upper_strip(Head(pairs)[1]) # "" /\ upper_strip(Head(pairs)[2]) = "USDT"
        THEN <<upper_strip(Head(pairs)[1]) \o upper_strip(Head(pairs)[2])>> ELSE <<>>)
       \o surf_symbols(Tail(pairs))

\* set(all_syms)
SeqSet(s) == {s[i] : i \in DOMAIN s}

\* the symbols that occur, in the order of Python's string comparison
SymOrder == <<"BTCUSDT", "DOGEUSDT", "ETHUSDT", "XRPUSDT">>

\* sorted(S) for a set of symbols
sorted_syms(S) == SelectSeq(SymOrder, LAMBDA s : s \in S)

\* majors = [s for s in majors if s in set(all_syms)]
group_majors(ranked, all_syms) == SelectSeq(ranked, LAMBDA s : s \in SeqSet(all_syms))

\* minors = sorted([s for s in set(all_syms) if s not in set(majors)])
group_minors(majors, all_syms) == sorted_syms(SeqSet(all_syms) \ SeqSet(majors))

groups_of(majors, all_syms) ==
  [majors |-> majors, minors |-> group_minors(majors, all_syms)]

groups_from(ranked, all_syms) == groups_of(group_majors(ranked, all_syms), all_syms)

\* cmc is Some(arr) when cmc_top20.json exists
build_groups(cmc, pairs) ==
  groups_from(IF cmc.some THEN ranked_symbols(cmc.val) ELSE <<>>, surf_symbols(pairs))

\* payload.get(sym) or {}, then sym_map.get(ex) or []
sym_map_of(data, sym) ==
  IF sym \in DOMAIN data THEN data[sym] ELSE [ex \in Venues |-> <<>>]

RECURSIVE sheets_loop(_, _, _, _, _)
\* one sheet per call of write_sheet; a raise ends generate_excel
sheets_append(data, syms, major, i, out, ws) ==
  IF ws.raised THEN [raised |-> TRUE, sheets |-> out]
  ELSE sheets_loop(data, syms, major, i + 1,
                   Append(out, [sym |-> syms[i], major |-> major, recs |-> ws.recs]))

\* for sym in majors: write_sheet(sym, MAJOR_TIERS) / for sym in minors: ...
sheets_loop(data, syms, major, i, out) ==
  IF i > Len(syms) THEN [raised |-> FALSE, sheets |-> out]
  ELSE sheets_append(data, syms, major, i, out, write_sheet(major, sym_map_of(data, syms[i])))

sheets_minors(data, g, m) ==
  IF m.raised THEN m ELSE sheets_loop(data, g.minors, FALSE, 1, m.sheets)

sheets_result(g, r) ==
  [raised |-> r.raised, majors |-> g.majors, minors |-> g.minors, sheets |-> r.sheets]

sheets_of(data, g) ==
  sheets_result(g, sheets_minors(data, g, sheets_loop(data, g.majors, TRUE, 1, <<>>)))

generate_excel(files) == sheets_of(files.data, build_groups(files.cmc, files.surf_pairs))

(***************************************************************************)
(* Inputs of the grouping specification: a ranked list of at most          *)
(* MaxRanked names (or no ranked file), at most MaxPairs tradable pairs,   *)
(* and a payload in which one symbol may be missing or may carry a 0X tier.*)
(***************************************************************************)
RankedNames == {"BTC", "ETH", "XRP", ""}
SurfPairs == {<<"BTC", "USDT">>, <<"eth", "usdt">>, <<" doge ", "USDT">>,
              <<"BTC", "USDC">>, <<"", "USDT">>}
GroupSyms == {"BTCUSDT", "DOGEUSDT", "ETHUSDT"}

PlainMap == OneVenue("BINANCE", <<<<"", LevStr(50), Num(1000000), PctStr(50)>>>>)
ZeroMap == OneVenue("BINANCE", <<<<"", LevStr(0), Num(1000000), PctStr(20)>>>>)

GroupData ==
  {[s \in GroupSyms |-> PlainMap]}
  \cup {[s \in GroupSyms |-> IF s = z THEN ZeroMap ELSE PlainMap] : z \in GroupSyms}
  \cup {[s \in GroupSyms \ {"DOGEUSDT"} |-> PlainMap]}

InitGroups ==
  /\ \E d \in GroupData :
       \E c \in {Nothing} \cup {Some(a) : a \in SeqsUpTo(RankedNames, MaxRanked)} :
         \E p \in SeqsUpTo(SurfPairs, MaxPairs) :
           payload = [data |-> d, cmc |-> c, surf_pairs |-> p]
  /\ isMajor = FALSE
  /\ op = "init"
  /\ arg = <<>>
  /\ ret = <<>>

BuildGroups ==
  /\ op' = "_build_groups"
  /\ arg' = <<>>
  /\ ret' = build_groups(payload.cmc, payload.surf_pairs)
  /\ UNCHANGED <<payload, isMajor>>

GenerateExcel ==
  /\ op' = "generate_excel"
  /\ arg' = <<>>
  /\ ret' = generate_excel(payload)
  /\ UNCHANGED <<payload, isMajor>>

NextGroups ==
  \/ BuildGroups
  \/ GenerateExcel

SpecGroups == InitGroups /\ [][NextGroups]_vars

(***************************************************************************)
(* Vocabulary of the classifier property: the tradable symbols and the     *)
(* ranked symbols as sets, and the thresholds a sheet was evaluated at.    *)
(***************************************************************************)
Tradable ==
  {upper_strip(payload.surf_pairs[i][1]) \o "USDT" :
     i \in {j \in DOMAIN payload.surf_pairs :
              /\ upper_strip(payload.surf_pairs[j][1]) # ""
              /\ upper_strip(payload.surf_pairs[j][2]) = "USDT"}}

Ranked ==
  IF payload.cmc.some
  THEN {upper_strip(payload.cmc.val[i]) \o "USDT" :
          i \in {j \in DOMAIN payload.cmc.val : upper_strip(payload.cmc.val[j]) # ""}}
  ELSE {}

EvaluatedAt(sheet) == [j \in DOMAIN sheet.recs |-> sheet.recs[j].position]

SheetsOf(sym) == {i \in DOMAIN ret.sheets : ret.sheets[i].sym = sym}

(***************************************************************************)
(* C21: the classifier partitions the tradable symbols: majors is exactly  *)
(* the ranked symbols that are tradable, minors is exactly the tradable    *)
(* symbols that are not majors, the two are disjoint and together are the  *)
(* tradable set; every major is evaluated at the major thresholds and      *)
(* every minor at the minor thresholds.                                    *)
(***************************************************************************)
C21_ClassifierPartitions ==
  op = "generate_excel" =>
    /\ SeqSet(ret.majors) = Ranked \cap Tradable
    /\ SeqSet(ret.minors) = Tradable \ SeqSet(ret.majors)
    /\ SeqSet(ret.majors) \cap SeqSet(ret.minors) = {}
    /\ SeqSet(ret.majors) \cup SeqSet(ret.minors) = Tradable
    /\ \A s \in SeqSet(ret.majors) :
         /\ SheetsOf(s) # {}
         /\ \A i \in SheetsOf(s) : EvaluatedAt(ret.sheets[i]) = MAJOR_TIERS
    /\ \A s \in SeqSet(ret.minors) :
         /\ SheetsOf(s) # {}
         /\ \A i \in SheetsOf(s) : EvaluatedAt(ret.sheets[i]) = MINOR_TIERS

(***************************************************************************)
(* The frame specification: the selectors, the street aggregations and the *)
(* leverage union called on the row lists of two venues, at most           *)
(* MaxFrameRows rows in all; each call reads payload and leaves it alone.  *)
(***************************************************************************)
MaxFrameRows == 2

FrameVenues == {"BINANCE", "BYBIT"}

FrameRows ==
  {<<"", LevStr(50), Num(50000), PctStr(100)>>,
   <<"", LevStr(20), Num(200000), PctStr(50)>>,
   <<"", EmptyStr, EmptyStr, EmptyStr>>}

InitFrame ==
  /\ \E flat \in SeqsUpTo(FrameVenues \X FrameRows, MaxFrameRows) : payload = PayloadOf(flat)
  /\ isMajor = FALSE
  /\ op = "init"
  /\ arg = <<>>
  /\ ret = <<>>

NextFrame ==
  \/ \E ex \in FrameVenues, S \in Thresholds : SelectMSR(ex, S)
  \/ \E ex \in FrameVenues, S \in Thresholds : SelectAPP(ex, S)
  \/ \E S \in Thresholds : StreetMSR(S)
  \/ \E S \in Thresholds : StreetAPP(S)
  \/ BuildAggregateUnionTable

SpecFrame == InitFrame /\ [][NextFrame]_vars

(***************************************************************************)
(* C22: selection and aggregation never mutate their input: across any     *)
(* call of _select_tier_for_threshold, _street_for_symbol or               *)
(* build_aggregate_union_table the row lists of the payload keep the same  *)
(* rows in the same order with the same values.                            *)
(***************************************************************************)
ReadOnlyCalls ==
  {"msr_select", "app_select", "msr_street", "app_street", "build_aggregate_union_table"}

Enumerations(S) ==
  {e \in [1..Cardinality(S) -> S] : \A i, j \in 1..Cardinality(S) : e[i] = e[j] => i = j}

\* the position of a symbol in Python's string order
sym_rank(s) == CHOOSE i \in DOMAIN SymOrder : SymOrder[i] = s

InsertBySymAsc(s, t) ==
  LET k == Cardinality({i \in 1..Len(s) : sym_rank(s[i]) <= sym_rank(t)})
  IN  SubSeq(s, 1, k) \o <<t>> \o SubSeq(s, k + 1, Len(s))

\* list(set(outs)): the targets in the order the set is enumerated
targets_unsorted(e) == e

RECURSIVE targets_sorted(_)
\* sorted(set(outs)), the set being enumerated in the order e
targets_sorted(e) ==
  IF e = <<>> THEN <<>>
  ELSE InsertBySymAsc(targets_sorted(SubSeq(e, 1, Len(e) - 1)), e[Len(e)])

\* the picks of the participating venues at the thresholds, and the street
picks_at(pl, S) == [ex \in Participating |-> msr_select_tier_for_threshold(pl[ex], S)]

run_symbol_on(sym, pl) ==
  [sym |-> sym, rows |-> pl,
   picks |-> [i \in DOMAIN MINOR_TIERS |-> picks_at(pl, MINOR_TIERS[i])],
   street |-> [i \in DOMAIN MINOR_TIERS |-> msr_street_for_symbol(pl, MINOR_TIERS[i])],
   union |-> build_aggregate_union_table(pl)]

RECURSIVE run_targets(_, _)
\* for sym in targets: skipped unless some venue lists the symbol
run_targets(sources, targets) ==
  IF targets = <<>> THEN <<>>
  ELSE (IF Head(targets) \in DOMAIN sources
        THEN <<run_symbol_on(Head(targets), make_excel(sources[Head(targets)]))>>
        ELSE <<>>)
       \o run_targets(sources, Tail(targets))

\* one run, the set of targets being enumerated in the order e
run_with(sources, e) == run_targets(sources, targets_sorted(e))

RerunSources ==
  {SourceOf(<<<<"binance", Bracket(Num(50), Num(50000), Num(10000), NoneV)>>,
              <<"bybit", Tier(Num(50), Num(50000), Num(10000))>>>>),
   SourceOf(<<<<"bybit", Tier(NumStr(20), Num(200000), Num(0))>>,
              <<"bybit", Tier(Num(50), Num(50000), Num(10000))>>>>)}

RerunData ==
  UNION {[D -> RerunSources] : D \in SUBSET GroupSyms}

InitRerun ==
  /\ \E d \in RerunData :
       \E p \in SeqsUpTo(SurfPairs, MaxPairs) : payload = [pairs |-> p, sources |-> d]
  /\ isMajor = FALSE
  /\ op = "init"
  /\ arg = <<>>
  /\ ret = <<>>

Run ==
  /\ \E e \in Enumerations(SeqSet(surf_symbols(payload.pairs))) :
        ret' = run_with(payload.sources, e)
  /\ op' = "run"
  /\ arg' = <<>>
  /\ UNCHANGED <<payload, isMajor>>

NextRerun == Run

SpecRerun == InitRerun /\ [][NextRerun]_vars

(***************************************************************************)
(* C23: normalization, selection and aggregation are deterministic: two    *)
(* runs on the same raw venue input yield identical rows, identical picks  *)
(* and identical best-leverage and best-mmr values and source venues,      *)
(* whatever the iteration order of the sets and dictionaries involved.     *)
(***************************************************************************)
C23_RerunIdentical ==
  [][(op = "run" /\ op' = "run" /\ payload' = payload) => ret' = ret]_vars

\* a run over two targets (a set with two enumeration orders) that produced
\* rows, a pick and a street source for each
C23_Witness ==
  /\ op = "run"
  /\ Len(ret) = 2
  /\ Cardinality(SeqSet(surf_symbols(payload.pairs))) = 2
  /\ \A i \in 1..2 :
       /\ ret[i].picks[1]["BYBIT"].some
       /\ ret[i].street[1].lev_src # ""

(***************************************************************************)
(* excel_write_platform_exchanges_setting.parse_sheet on the sheet that    *)
(* tableMake.make_excel writes: the header row, then for each venue of     *)
(* EX_ORDER its rows and a blank row.  A sheet row is                      *)
(* [ex |-> column 1, lev, size, mmr]; a cell written as "" is read back as *)
(* `blank`, which is None or "" depending on how the workbook stores it.   *)
(***************************************************************************)
EXS == {"BINANCE", "WEEX", "MECX", "BYBIT", "SURF"}

\* the value ws.iter_rows(values_only=True) gives for a written cell
xl_read(v, blank) == IF v = EmptyStr THEN blank ELSE v

xl_row(r, blank) ==
  [ex |-> r[1], lev |-> xl_read(r[2], blank), size |-> xl_read(r[3], blank),
   mmr |-> xl_read(r[4], blank)]

\* ws.append(r) for r in rows; ws.append(["", "", "", ""])
xl_block(rows, blank) ==
  [i \in 1..Len(rows) |-> xl_row(rows[i], blank)]
  \o <<xl_row(<<"", EmptyStr, EmptyStr, EmptyStr>>, blank)>>

RECURSIVE xl_blocks(_, _, _)
\* for ex in EX_ORDER: the block of the venue
xl_blocks(pl, i, blank) ==
  IF i > Len(EX_ORDER) THEN <<>>
  ELSE xl_block(pl[ex_upper(EX_ORDER[i])], blank) \o xl_blocks(pl, i + 1, blank)

\* the rows of the sheet below the header row
xl_sheet(pl, blank) == xl_blocks(pl, 1, blank)

\* "<n>X" -> n, a number -> int(float(s)), anything else -> None
xl_parse_leverage(v) ==
  CASE v.t \in {"LevStr", "Num", "NumStr"} -> Some(v.v)
    [] OTHER -> Nothing

\* commas removed; "<p>%" -> p / 100 (in millionths); a number -> itself
xl_parse_float(v) ==
  CASE v.t \in {"Num", "NumStr", "CommaStr"} -> Some(v.v)
    [] v.t = "PctStr" -> Some(v.v * 100)
    [] OTHER -> Nothing

\* rows.append({...}) with the counter of the current block already advanced
xl_record(ex, order, row) ==
  [exchange |-> ex, tier_order |-> order,
   max_leverage |-> xl_parse_leverage(row.lev),
   max_size |-> xl_parse_float(row.size),
   mmr |-> xl_parse_float(row.mmr)]

\* the body of the loop over the rows below the header
parse_sheet_step(st, row) ==
  IF row.ex = "" /\ row.lev = NoneV /\ row.size = NoneV /\ row.mmr = NoneV
  THEN [st EXCEPT !.current_ex = ""]
  ELSE IF row.ex \in EXS
  THEN [st EXCEPT !.current_ex = row.ex, !.tier_counter[row.ex] = 0]
  ELSE IF st.current_ex = "" THEN st
  ELSE [st EXCEPT !.tier_counter[st.current_ex] = @ + 1,
                  !.rows = Append(@, xl_record(st.current_ex,
                                               st.tier_counter[st.current_ex] + 1, row))]

RECURSIVE parse_sheet_loop(_, _, _)
parse_sheet_loop(sheet, i, st) ==
  IF i > Len(sheet) THEN st.rows
  ELSE parse_sheet_loop(sheet, i + 1, parse_sheet_step(st, sheet[i]))

parse_sheet(sheet) ==
  parse_sheet_loop(sheet, 1,
                   [current_ex |-> "", tier_counter |-> [e \in EXS |-> 0], rows |-> <<>>])

ParseSheet(blank) ==
  /\ op # "init"
  /\ op' = "parse_sheet"
  /\ arg' = <<blank>>
  /\ ret' = parse_sheet(xl_sheet(payload, blank))
  /\ UNCHANGED <<payload, isMajor>>

NextSheet ==
  \/ \E src \in Sources : MakeExcel(src)
  \/ \E blank \in {NoneV, EmptyStr} : ParseSheet(blank)

SpecSheet == InitPipeline /\ [][NextSheet]_vars

(***************************************************************************)
(* C24: for a sheet laid out as make_excel writes it, parse_sheet emits    *)
(* one record for every tier row of every venue block, and the record's    *)
(* tier_order is the row's 1-based position within its block.              *)
(***************************************************************************)
TierRowsOf(E) == IF payload[E] = PlaceholderBlock(E) THEN 0 ELSE Len(payload[E])

RecordsOf(E) == SelectSeq(ret, LAMBDA rec : rec.exchange = E)

C24_OneRecordPerTierRow ==
  op = "parse_sheet" =>
    \A E \in EXS :
      /\ Len(RecordsOf(E)) = TierRowsOf(E)
      /\ \A k \in 1..Len(RecordsOf(E)) : RecordsOf(E)[k].tier_order = k

(***************************************************************************)
(* main.py: the service.  In the service specification payload is the      *)
(* state of the host: lock (app.lock exists), and per instance its         *)
(* position pc, its exit code, the steps its current run_once call has     *)
(* run with their outcomes (log) and the result of that call.             *)
(* Positions: "idle" (not started), "main" (at acquire_lock), the name of  *)
(* the step run_once is about to run, "sleep" (after run_once, in          *)
(* time.sleep), "exited".                                                  *)
(***************************************************************************)
MaxInstances == 2

Instances == 1..MaxInstances

\* the sub-tasks of run_once, in the order of its calls
STEPS == <<"fetch_symbols", "dataGet_main", "tableMake_main", "publish_latest_json">>

LoopPCs == {STEPS[k] : k \in DOMAIN STEPS} \cup {"sleep"}

step_index(pc) == CHOOSE k \in DOMAIN STEPS : STEPS[k] = pc

\* what run_py / run_ps1 does: returns the sub-process's code (127 when the
\* script is missing), or subprocess.call raises
Returns(rc) == [raised |-> FALSE, rc |-> rc]
Raises == [raised |-> TRUE, rc |-> 0]
Outcomes == {Returns(rc) : rc \in {0, 1, 2, 127}} \cup {Raises}

Running == [state |-> "running", rc |-> 0]
Returned(rc) == [state |-> "returned", rc |-> rc]
Raised == [state |-> "raised", rc |-> 0]

\* a lock taken without O_EXCL
acquire_lock_not_exclusive(lock) == [ok |-> TRUE, lock |-> TRUE]

\* os.open(LOCK_PATH, O_CREAT | O_EXCL | O_WRONLY): FileExistsError -> False
acquire_lock(lock) == [ok |-> ~lock, lock |-> TRUE]

\* if LOCK_PATH.exists(): LOCK_PATH.unlink(missing_ok=True)
release_lock(lock) == FALSE

\* run_once that goes on to the next step whatever the return code was
run_once_after_ignoring_rc(k, out) ==
  IF out.raised THEN [pc |-> "sleep", result |-> Raised]
  ELSE IF k < Len(STEPS) THEN [pc |-> STEPS[k + 1], result |-> Running]
  ELSE [pc |-> "sleep", result |-> Returned(out.rc)]

\* run_once after step k ended with out: `if rc != 0: return rc`, the next
\* step, or `return 0`; an exception goes to main's `except Exception`
run_once_after(k, out) ==
  IF out.raised THEN [pc |-> "sleep", result |-> Raised]
  ELSE IF out.rc # 0 THEN [pc |-> "sleep", result |-> Returned(out.rc)]
  ELSE IF k < Len(STEPS) THEN [pc |-> STEPS[k + 1], result |-> Running]
  ELSE [pc |-> "sleep", result |-> Returned(0)]

InitService ==
  /\ payload = [lock |-> FALSE,
                pc |-> [i \in Instances |-> "idle"],
                exit |-> [i \in Instances |-> Nothing],
                log |-> [i \in Instances |-> <<>>],
                result |-> [i \in Instances |-> Running]]
  /\ isMajor = FALSE
  /\ op = "init"
  /\ arg = <<>>
  /\ ret = <<>>

\* a process of the service is started
Start(i) ==
  /\ payload.pc[i] \in {"idle", "exited"}
  /\ op' = "start"
  /\ arg' = <<i>>
  /\ ret' = <<>>
  /\ payload' = [payload EXCEPT !.pc[i] = "main", !.exit[i] = Nothing,
                                !.log[i] = <<>>, !.result[i] = Running]
  /\ UNCHANGED isMajor

AcquireLockDone(i, a) ==
  /\ op' = "acquire_lock"
  /\ arg' = <<i>>
  /\ ret' = a.ok
  /\ payload' = IF a.ok
                THEN [payload EXCEPT !.lock = a.lock, !.pc[i] = STEPS[1]]
                ELSE [payload EXCEPT !.pc[i] = "exited", !.exit[i] = Some(1)]
  /\ UNCHANGED isMajor

\* main: if not acquire_lock(): return 1
AcquireLock(i) ==
  /\ payload.pc[i] = "main"
  /\ AcquireLockDone(i, acquire_lock(payload.lock))

RunStepDone(i, out, nx) ==
  /\ op' = "run_step"
  /\ arg' = <<i>>
  /\ ret' = out
  /\ payload' = [payload EXCEPT !.pc[i] = nx.pc, !.result[i] = nx.result,
                                !.log[i] = Append(@, [step |-> payload.pc[i],
                                                      raised |-> out.raised, rc |-> out.rc])]
  /\ UNCHANGED isMajor

\* one sub-task of run_once, and what run_once does with its outcome
RunStep(i, out) ==
  /\ payload.pc[i] \in {STEPS[k] : k \in DOMAIN STEPS}
  /\ RunStepDone(i, out, run_once_after(step_index(payload.pc[i]), out))

\* time.sleep returns and the loop calls run_once again
Sleep(i) ==
  /\ payload.pc[i] = "sleep"
  /\ op' = "sleep"
  /\ arg' = <<i>>
  /\ ret' = <<>>
  /\ payload' = [payload EXCEPT !.pc[i] = STEPS[1], !.log[i] = <<>>, !.result[i] = Running]
  /\ UNCHANGED isMajor

\* KeyboardInterrupt inside the loop: finally release_lock(); return 0
Interrupt(i) ==
  /\ payload.pc[i] \in LoopPCs
  /\ op' = "interrupt"
  /\ arg' = <<i>>
  /\ ret' = <<>>
  /\ payload' = [payload EXCEPT !.lock = release_lock(payload.lock),
                                !.pc[i] = "exited", !.exit[i] = Some(0)]
  /\ UNCHANGED isMajor

NextService ==
  \/ \E i \in Instances : Start(i)
  \/ \E i \in Instances : AcquireLock(i)
  \/ \E i \in Instances, out \in Outcomes : RunStep(i, out)
  \/ \E i \in Instances : Sleep(i)
  \/ \E i \in Instances : Interrupt(i)

SpecService == InitService /\ [][NextService]_vars

(***************************************************************************)
(* C25: run_once runs fetch_symbols, dataGet_main, tableMake_main and      *)
(* publish_latest_json in that order; a step is started only after every   *)
(* earlier step returned 0, no step after the first failing one is         *)
(* started, and the return value is the first non-zero return code, 0      *)
(* only when all four steps returned 0.                                    *)
(***************************************************************************)
C25_RunOnceStopsAtFirstFailure ==
  \A i \in Instances :
    /\ Len(payload.log[i]) <= Len(STEPS)
    /\ \A k \in 1..Len(payload.log[i]) :
         /\ payload.log[i][k].step = STEPS[k]
         /\ \A j \in 1..(k - 1) : ~payload.log[i][j].raised /\ payload.log[i][j].rc = 0
    /\ payload.result[i].state = "returned" =>
         /\ payload.log[i] # <<>>
         /\ payload.result[i].rc = payload.log[i][Len(payload.log[i])].rc
         /\ ~payload.log[i][Len(payload.log[i])].raised
         /\ payload.result[i].rc = 0 => Len(payload.log[i]) = Len(STEPS)

\* run_once has returned 127 from its third step after two steps returned 0
C25_Witness ==
  \E i \in Instances :
    /\ payload.result[i] = Returned(127)
    /\ Len(payload.log[i]) = 3
    /\ payload.log[i][3].rc = 127

(***************************************************************************)
(* C28: at most one service instance is inside the hourly pipeline loop at *)
(* any time: an instance enters the loop only by exclusively creating      *)
(* app.lock, an instance that finds the lock present exits with code 1     *)
(* without running any step and without removing the lock, the holder      *)
(* removes the lock when it leaves the loop, and a failing or raising      *)
(* cycle neither ends the loop nor releases the lock.                      *)
(***************************************************************************)
InLoop(i) == payload.pc[i] \in LoopPCs

MaxRetries == 3
MaxCalls == 5

\* the ASCII entries of the keyword lists (the others are Chinese phrases)
limit_keywords == {"rate limit", "too many requests", "quota exceeded"}
network_keywords == {"timeout", "connection"}

\* any(keyword in msg for keyword in limit_keywords)
is_limit_error(msg) == msg \cap limit_keywords # {}

is_network_error(msg) == msg \cap network_keywords # {}

Ok(v) == [ok |-> TRUE, val |-> v, msg |-> {}]
Err(msg) == [ok |-> FALSE, val |-> 0, msg |-> msg]

\* the outcomes of one invocation of func
FuncOutcomes ==
  {Ok(1), Ok(2)} \cup
  {Err(m) : m \in {{"rate limit"}, {"too many requests", "timeout"}, {"timeout"}, {}}}

\* `retry_count > max_retries`, max_retries None meaning no limit
retries_exceeded(max_retries, retry_count) ==
  max_retries.some /\ retry_count > max_retries.val

\* smart_retry: every exception counts, network errors are retried as well
smart_retry_on(st, out) ==
  IF out.ok
  THEN [st EXCEPT !.calls = Append(@, out), !.status = "returned", !.result = out]
  ELSE IF retries_exceeded(st.max_retries, st.retry_count + 1)
          \/ ~(is_limit_error(out.msg) \/ is_network_error(out.msg))
  THEN [st EXCEPT !.calls = Append(@, out), !.retry_count = @ + 1,
                  !.status = "raised", !.result = out]
  ELSE [st EXCEPT !.calls = Append(@, out), !.retry_count = @ + 1]

\* one pass of `while True` in retry_on_limit's wrapper, func ending with out
retry_on_limit_on(st, out) ==
  IF out.ok
  THEN [st EXCEPT !.calls = Append(@, out), !.status = "returned", !.result = out]
  ELSE IF ~is_limit_error(out.msg)
  THEN [st EXCEPT !.calls = Append(@, out), !.status = "raised", !.result = out]
  ELSE IF retries_exceeded(st.max_retries, st.retry_count + 1)
  THEN [st EXCEPT !.calls = Append(@, out), !.retry_count = @ + 1,
                  !.status = "raised", !.result = out]
  ELSE [st EXCEPT !.calls = Append(@, out), !.retry_count = @ + 1]

InitRetry ==
  /\ \E m \in {Nothing} \cup {Some(n) : n \in 0..MaxRetries} :
       payload = [max_retries |-> m, retry_count |-> 0, calls |-> <<>>,
                  status |-> "running", result |-> Ok(0)]
  /\ isMajor = FALSE
  /\ op = "init"
  /\ arg = <<>>
  /\ ret = <<>>

\* func is invoked and ends with out
Invoke(out) ==
  /\ payload.status = "running"
  /\ Len(payload.calls) < MaxCalls
  /\ op' = "invoke"
  /\ arg' = <<>>
  /\ ret' = out
  /\ payload' = retry_on_limit_on(payload, out)
  /\ UNCHANGED isMajor

\* the wrapped function is called again
CallAgain ==
  /\ payload.status # "running"
  /\ op' = "call"
  /\ arg' = <<>>
  /\ ret' = <<>>
  /\ payload' = [payload EXCEPT !.retry_count = 0, !.calls = <<>>,
                                !.status = "running", !.result = Ok(0)]
  /\ UNCHANGED isMajor

NextRetry ==
  \/ \E out \in FuncOutcomes : Invoke(out)
  \/ CallAgain

SpecRetry == InitRetry /\ [][NextRetry]_vars

(***************************************************************************)
(* C26: a function wrapped by retry_on_limit(max_retries=n) is invoked at  *)
(* most n+1 times per call: it is retried only after a rate-limit error,   *)
(* the exception propagates once the number of rate-limit failures exceeds *)
(* n, any other exception propagates at its first occurrence without a     *)
(* further invocation, and a successful invocation returns its value with  *)
(* no further invocation.                                                  *)
(***************************************************************************)
RateLimited(o) == ~o.ok /\ o.msg \cap limit_keywords # {}

RateLimitFailures == Cardinality({k \in DOMAIN payload.calls : RateLimited(payload.calls[k])})

C26_RetryOnLimitBounded ==
  payload.max_retries.some =>
    /\ Len(payload.calls) <= payload.max_retries.val + 1
    /\ \A k \in 1..(Len(payload.calls) - 1) : RateLimited(payload.calls[k])
    /\ RateLimitFailures > payload.max_retries.val =>
         /\ payload.status = "raised"
         /\ payload.result = payload.calls[Len(payload.calls)]
    /\ \A k \in DOMAIN payload.calls :
         (~payload.calls[k].ok /\ ~RateLimited(payload.calls[k])) =>
           /\ k = Len(payload.calls)
           /\ payload.status = "raised"
           /\ payload.result = payload.calls[k]
    /\ \A k \in DOMAIN payload.calls :
         payload.calls[k].ok =>
           /\ k = Len(payload.calls)
           /\ payload.status = "returned"
           /\ payload.result = payload.calls[k]
    /\ payload.status = "running" => RateLimitFailures = Len(payload.calls)

\* with max_retries = 2 the third rate-limit failure in a row has propagated
C26_Witness ==
  /\ payload.max_retries = Some(2)
  /\ Len(payload.calls) = 3
  /\ RateLimitFailures = 3
  /\ payload.status = "raised"

(***************************************************************************)
(* dataGet/utils/multithread_utils.run_multithread: one call.  In the      *)
(* multithread specification payload is the call's frame: data_list,       *)
(* max_workers, the state of each submitted task ("queued", "running",     *)
(* "finished", "collected"), what each task ended with (outcome), the      *)
(* pre-allocated results list, the completed counter, the order in which   *)
(* the futures were handled and whether the call has returned.  Workers take the queued tasks in submission order and    *)
(* finish in any order; the caller handles the finished futures in the     *)
(* order as_completed yields them.                                         *)
(***************************************************************************)
MaxTasks == 3
MaxWorkers == 2

\* the data items: item k of data_list is 10 * k
data_item(k) == 10 * k

\* what func(data) can do: return a value made from data, return None, raise
TaskReturns(v) == [ok |-> TRUE, val |-> v]
TaskRaises == [ok |-> FALSE, val |-> NoneV]
TaskOutcomes(data) == {TaskReturns(Num(data + 1)), TaskReturns(NoneV), TaskRaises}

\* results.append(result), in the order of completion
place_result_appended(results, index, result) ==
  IF \E j \in DOMAIN results : results[j] = NoneV
  THEN [results EXCEPT ![CHOOSE j \in DOMAIN results :
                           /\ results[j] = NoneV
                           /\ \A h \in 1..(j - 1) : results[h] # NoneV] = result]
  ELSE results

\* results[index] = result
place_result(results, index, result) == [results EXCEPT ![index] = result]

\* the body of `for future in as_completed(...)` for the future of task index
collect_future(st, index, out) ==
  IF out.ok
  THEN [st EXCEPT !.results = place_result(@, index, out.val), !.completed = @ + 1,
                  !.task[index] = "collected", !.order = Append(@, index)]
  ELSE [st EXCEPT !.completed = @ + 1, !.task[index] = "collected",
                  !.order = Append(@, index)]

\* [r for r in results if r is not None]
filtered_results(results) == SelectSeq(results, LAMBDA r : r # NoneV)

InitThreads ==
  /\ \E n \in 0..MaxTasks, w \in 1..MaxWorkers :
       payload = [data_list |-> [k \in 1..n |-> data_item(k)],
                  max_workers |-> w,
                  task |-> [k \in 1..n |-> "queued"],
                  outcome |-> [k \in 1..n |-> TaskReturns(NoneV)],
                  results |-> [k \in 1..n |-> NoneV],
                  completed |-> 0,
                  order |-> <<>>,
                  returned |-> FALSE]
  /\ isMajor = FALSE
  /\ op = "init"
  /\ arg = <<>>
  /\ ret = <<>>

\* a free worker takes the oldest queued task
StartTask(i) ==
  /\ payload.task[i] = "queued"
  /\ \A j \in 1..(i - 1) : payload.task[j] # "queued"
  /\ Cardinality({j \in DOMAIN payload.task : payload.task[j] = "running"}) < payload.max_workers
  /\ op' = "start_task"
  /\ arg' = <<i>>
  /\ ret' = <<>>
  /\ payload' = [payload EXCEPT !.task[i] = "running"]
  /\ UNCHANGED isMajor

\* func(data) ends in its worker thread
FinishTask(i, out) ==
  /\ payload.task[i] = "running"
  /\ op' = "finish_task"
  /\ arg' = <<i>>
  /\ ret' = out
  /\ payload' = [payload EXCEPT !.task[i] = "finished", !.outcome[i] = out]
  /\ UNCHANGED isMajor

\* as_completed yields the future of a finished task and the loop body runs
CollectFuture(i) ==
  /\ payload.task[i] = "finished"
  /\ op' = "collect"
  /\ arg' = <<i>>
  /\ ret' = <<>>
  /\ payload' = collect_future(payload, i, payload.outcome[i])
  /\ UNCHANGED isMajor

\* every future was yielded, the executor is shut down: return filtered_results
ReturnResults ==
  /\ ~payload.returned
  /\ \A i \in DOMAIN payload.task : payload.task[i] = "collected"
  /\ op' = "return"
  /\ arg' = <<>>
  /\ ret' = filtered_results(payload.results)
  /\ payload' = [payload EXCEPT !.returned = TRUE]
  /\ UNCHANGED isMajor

NextThreads ==
  \/ \E i \in DOMAIN payload.task : StartTask(i)
  \/ \E i \in DOMAIN payload.task : \E out \in TaskOutcomes(payload.data_list[i]) : FinishTask(i, out)
  \/ \E i \in DOMAIN payload.task : CollectFuture(i)
  \/ ReturnResults

SpecThreads == InitThreads /\ [][NextThreads]_vars

(***************************************************************************)
(* C27: run_multithread returns the results in the order of the input      *)
(* items whatever the order in which the worker threads complete: the      *)
(* returned list is the input-ordered sequence of the results of the tasks *)
(* that succeeded with a non-None result, tasks that raised are omitted,   *)
(* and the call returns only after every task has finished.                *)
(***************************************************************************)
Succeeded(i) == payload.outcome[i].ok /\ payload.outcome[i].val # NoneV

RECURSIVE InputOrdered(_)
\* the results of the succeeded tasks among the first n, in input order
InputOrdered(n) ==
  IF n = 0 THEN <<>>
  ELSE InputOrdered(n - 1) \o (IF Succeeded(n) THEN <<payload.outcome[n].val>> ELSE <<>>)

C27_ResultsInInputOrder ==
  payload.returned =>
    /\ \A i \in DOMAIN payload.task : payload.task[i] \in {"finished", "collected"}
    /\ ret = InputOrdered(Len(payload.data_list))

\* three tasks: the third was handled before the first, the second raised
C27_Witness ==
  /\ payload.returned
  /\ payload.order = <<3, 2, 1>>
  /\ ret = <<Num(11), Num(31)>>
  /\ ~payload.outcome[2].ok

(***************************************************************************)
(* C29: the two selectors agree in the interior: for a row list with       *)
(* numeric fields and a threshold S strictly above the smallest and        *)
(* strictly below the largest cap of the complete tiers,                   *)
(* make_suggest_rules._select_tier_for_threshold and                       *)
(* streamlit_app._select_tier_for_threshold return the same                *)
(* (leverage, mmr), also when several tiers share a cap.                   *)
(***************************************************************************)
Interior(k, rows, S) ==
  /\ \E i \in Complete(k, rows) : CapOf(k, rows, i) < S
  /\ \E i \in Complete(k, rows) : CapOf(k, rows, i) > S

C29_SelectorsAgreeInInterior ==
  (Selecting /\ Interior("msr", SelRowsArg, SelS) /\ Interior("app", SelRowsArg, SelS)) =>
    /\ ret.some
    /\ ret = msr_select_tier_for_threshold(SelRowsArg, SelS)
    /\ ret = app_select_tier_for_threshold(SelRowsArg, SelS)

\* the dashboard's selector picked, at an interior threshold, one of two
\* tiers of different leverage that share the smallest covering cap
C29_Witness ==
  /\ op = "app_select"
  /\ Interior("app", SelRowsArg, SelS)
  /\ \E i, j \in Complete("app", SelRowsArg) :
       /\ i # j
       /\ CapOf("app", SelRowsArg, i) >= SelS
       /\ CapOf("app", SelRowsArg, j) = CapOf("app", SelRowsArg, i)
       /\ LevOf("app", SelRowsArg, i) # LevOf("app", SelRowsArg, j)
       /\ ret \in {PickOf("app", SelRowsArg, i), PickOf("app", SelRowsArg, j)}

(***************************************************************************)
(* Inputs of the margin-rate floor properties: one venue whose schedule    *)
(* holds tiers with a margin rate equal to MMR_FLOOR (0.02%), below it     *)
(* (0.01%) and above it (1.00%), and a 2X tier whose suggested leverage    *)
(* rounds to 0.                                                            *)
(***************************************************************************)
FloorRows ==
  {<<"", LevStr(100), Num(50000), PctStr(2)>>,
   <<"", LevStr(50), Num(200000), PctStr(1)>>,
   <<"", LevStr(20), Num(1000000), PctStr(100)>>,
   <<"", LevStr(2), Num(1000000), PctStr(40)>>}

InitFloor ==
  /\ \E rows \in SeqsUpTo(FloorRows, MaxRows) : payload = OneVenue("BINANCE", rows)
  /\ isMajor \in BOOLEAN
  /\ op = "init"
  /\ arg = <<>>
  /\ ret = <<>>

SpecFloor == InitFloor /\ [][NextSuggest]_vars

\* the upper clamp of the margin rate at index idx: 0.90 x best mmr at the
\* topmost threshold (best mmr absent counts as 1.0), best mmr elsewhere
HasClamp(idx) == idx = NumTiers \/ BestAt(idx).mmr.some
ClampAt(idx) ==
  IF idx = NumTiers
  THEN <<(IF BestAt(idx).mmr.some THEN BestAt(idx).mmr.val ELSE ONE) * 9, 10>>
  ELSE <<BestAt(idx).mmr.val, 1>>
FloorRate == <<MMR_FLOOR, 1>>

(***************************************************************************)
(* C30 as stated.  Every suggested margin rate in a table returned by      *)
(* build_suggest_rule_table is at least MMR_FLOOR, whatever the best       *)
(* leverage and the best mmr are, a best mmr below the floor included.     *)
(***************************************************************************)
C30_SuggestedMmrAtLeastFloor ==
  Built => \A idx \in DOMAIN ret.recs : FracLE(FloorRate, ret.recs[idx].sug_mmr)

(***************************************************************************)
(* C30 amended.  Every suggested margin rate in a table returned by        *)
(* build_suggest_rule_table is at least the smaller of MMR_FLOOR and the   *)
(* clamp of its threshold (0.90 x best mmr at the topmost threshold, best  *)
(* mmr at the others); it is at least MMR_FLOOR wherever there is no clamp *)
(* or the clamp is at least MMR_FLOOR, and equals the clamp wherever the   *)
(* clamp is below MMR_FLOOR.                                               *)
(***************************************************************************)
C30_SuggestedMmrAtLeastFloorOrClamp ==
  Built =>
    \A idx \in DOMAIN ret.recs :
       IF HasClamp(idx) /\ ~FracLE(FloorRate, ClampAt(idx))
       THEN FracEq(ret.recs[idx].sug_mmr, ClampAt(idx))
       ELSE FracLE(FloorRate, ret.recs[idx].sug_mmr)

\* a returned table with a rate held at the floor or above at one threshold
\* and a rate below the floor, equal to a best mmr below the floor, at another
C30_Witness ==
  /\ Built
  /\ ~ret.raised
  /\ Len(ret.recs) = NumTiers
  /\ \E i \in 1..NumTiers, j \in 1..(NumTiers - 1) :
        /\ BestAt(i).mmr.some
        /\ BestAt(i).mmr.val >= MMR_FLOOR
        /\ FracLE(FloorRate, ret.recs[i].sug_mmr)
        /\ BestAt(j).mmr.some
        /\ BestAt(j).mmr.val < MMR_FLOOR
        /\ ret.recs[j].sug_mmr = <<BestAt(j).mmr.val, 1>>
        /\ ~FracLE(FloorRate, ret.recs[j].sug_mmr)

====
